---------------------------- MODULE Spec2Model ----------------------------
(***************************************************************************)
(* fitconnect-pro: the InBody (body-composition) pipeline.                 *)
(*                                                                         *)
(*   - services/ocr: the OCR provider and its field extractor              *)
(*   - hooks/useInBodyRecords: the record store (fetchRecords, saveRecord) *)
(*   - components/inbody/InBodyForm: validation, submit and OCR prefill    *)
(*                                                                         *)
(* Numbers are fixed-point integers in hundredths (82.5 is 8250).  A text  *)
(* is a sequence of tokens (words, numerals, ":" "%" and the line break);  *)
(* consecutive tokens are separated by blanks.                             *)
(***************************************************************************)
EXTENDS Integers, Sequences, FiniteSets, TLC

(***************************************************************************)
(* Bounds of the model.                                                    *)
(***************************************************************************)
\* the recognized text holds at most this many lines
MaxLines == 3
\* the sessions of SpecStore send at most this many upserts that succeed
MaxSaves == 2
\* the form of SpecForm sends at most this many upserts that succeed
MaxFormSaves == 1
\* measurement dates are the days 1..MaxDay
MaxDay == 2
\* the user changes a form field at most this many times
MaxEdits == 2
\* handleFileUpload is called at most this many times
MaxUploads == 2
\* an owner of the insight specifications has at most this many records
MaxRecords == 3
\* the insights panel calls fetchInsights at most this many times
MaxLoads == 2
\* the seed script is run at most this many times
MaxRuns == 3
\* the coaching_requests table holds at most this many rows
MaxRequests == 2
\* handleSubmit of the plan pages is called at most this many times
MaxPlans == 3
\* the conversation holds at most this many messages
MaxMessages == 2
\* refetch of useChat is called at most this many times
MaxRefetches == 1

(***************************************************************************)
(* The state of the insights, which the sections further down describe;   *)
(* the actions of the InBody page leave it alone.                          *)
(***************************************************************************)
VARIABLES
  clock,            \* what new Date() gives: seconds since 2023-12-31T00:00Z
  rangeInsights,    \* what the last getInsights() call returned
  monthlyInsights,  \* what the last getMonthlyInsights() call returned
  clientId,         \* the clientId prop of the panel, NoUser when not shown
  inbodyRecords,    \* the panel's inbodyRecords (useState)
  inbodyInsights,   \* the panel's inbodyInsights (useState)
  insights,         \* the trends of the panel's insights (useState)
  panelLoading,     \* the panel's isLoading (useState)
  panelCall         \* panelCall[n]: the n-th fetchInsights call

insightVars == <<clock, rangeInsights, monthlyInsights>>
panelVars ==
  <<clientId, inbodyRecords, inbodyInsights, insights, panelLoading,
    panelCall>>

(***************************************************************************)
(* The state of the seed script and of the coach assignments, likewise.    *)
(***************************************************************************)
VARIABLES
  seedDb,                    \* the tables the seed script writes
  seedPc,                    \* the call main() awaits, 0 when it is not running
  seedRuns,                  \* the runs of the script that have ended
  coach_client_assignments,  \* the table: a set of rows
  coaching_requests,         \* the status of the client's request to a coach
  currentCoach,              \* currentCoach of the marketplace (useState)
  profileCoach,              \* currentCoach of the coach profile page
  joinCall,                  \* the joinCoach call in flight
  payCall,                   \* the confirmPayment call in flight
  respondCall                \* respondCall[k]: coach k's respondToRequest

seedVars == <<seedDb, seedPc, seedRuns>>
coachPages ==
  <<coaching_requests, currentCoach, profileCoach, joinCall, payCall,
    respondCall>>
coachVars == <<coach_client_assignments, coachPages>>

(***************************************************************************)
(* The row-level policies of coach_client_assignments, and the request     *)
(* form.                                                                   *)
(***************************************************************************)
VARIABLES
  policies,    \* "schema": the policies of the initial schema; "open": later
               \* policies admit every statement the handlers send
  createCall   \* createCall[t]: the createRequest call of tab t

requestVars == <<policies, createCall>>

(***************************************************************************)
(* The plans and the plan-pdfs bucket.                                     *)
(***************************************************************************)
VARIABLES
  workout_plans,  \* the table: a set of rows
  diet_plans,     \* the table: a set of rows
  objects,        \* the names of the objects of the plan-pdfs bucket
  planCall,       \* planCall[t]: the handleSubmit call of tab t
  planStarted     \* the handleSubmit calls so far; Date.now() of the next

planVars == <<workout_plans, diet_plans, objects, planCall, planStarted>>

(***************************************************************************)
(* The chat.                                                               *)
(***************************************************************************)
VARIABLES
  chat_conversations,  \* the table: a set of rows
  chat_messages,       \* the table: its rows in the order of created_at
  conversation,        \* conversation[s] (useState): its id, or 0 for null
  messages,            \* messages[s] (useState): the ids of the list
  chatCall,            \* chatCall[s]: init() of side s
  feed,                \* feed[s]: the inserts the feed has yet to hand over
  refetchCall,         \* refetchCall[s]: the refetch() of side s
  refetches            \* the refetch() calls so far

chatVars ==
  <<chat_conversations, chat_messages, conversation, messages, chatCall,
    feed, refetchCall, refetches>>
lateVars == <<requestVars, planVars, chatVars>>

restVars == <<insightVars, panelVars, seedVars, coachVars, lateVars>>

(***************************************************************************)
(* JavaScript values.                                                      *)
(***************************************************************************)
\* the null of a `number | null` field
null == 0 - 1000000
\* the NaN parseFloat returns when no number starts the string
NaN == 0 - 2000000

Digits == {"0", "1", "2", "3", "4", "5", "6", "7", "8", "9"}

DigitVal(c) ==
  CASE c = "0" -> 0 [] c = "1" -> 1 [] c = "2" -> 2 [] c = "3" -> 3
    [] c = "4" -> 4 [] c = "5" -> 5 [] c = "6" -> 6 [] c = "7" -> 7
    [] c = "8" -> 8 [] c = "9" -> 9

DigitChar(d) == <<"0", "1", "2", "3", "4", "5", "6", "7", "8", "9">>[d + 1]

\* the index after the run of digits of s that starts at i
RECURSIVE DigitsEnd(_, _)
DigitsEnd(s, i) ==
  IF i <= Len(s) /\ s[i] \in Digits THEN DigitsEnd(s, i + 1) ELSE i

\* the value of the digits s[i..j-1] read as a decimal integer
RECURSIVE DigitsValue(_, _, _)
DigitsValue(s, i, j) ==
  IF i >= j THEN 0 ELSE DigitsValue(s, i, j - 1) * 10 + DigitVal(s[j - 1])

(***************************************************************************)
(* parseFloat: an optional sign, digits, an optional "." and digits; what  *)
(* follows the longest such prefix is ignored, and a string that starts    *)
(* with no number gives NaN.  The value is kept to two decimals.           *)
(***************************************************************************)
parseFloat(s) ==
  LET signed == Len(s) >= 1 /\ s[1] \in {"-", "+"}
      i0 == IF signed THEN 2 ELSE 1
      i1 == DigitsEnd(s, i0)
      dot == i1 <= Len(s) /\ s[i1] = "."
      f0 == IF dot THEN i1 + 1 ELSE i1
      f1 == IF dot THEN DigitsEnd(s, f0) ELSE i1
      int == DigitsValue(s, i0, i1)
      d1 == IF f1 > f0 THEN DigitVal(s[f0]) ELSE 0
      d2 == IF f1 > f0 + 1 THEN DigitVal(s[f0 + 1]) ELSE 0
      mag == int * 100 + d1 * 10 + d2
  IN  IF i1 = i0 /\ f1 = f0 THEN NaN
      ELSE IF signed /\ s[1] = "-" THEN 0 - mag ELSE mag

isNaN(v) == v = NaN

\* the decimal digits of the natural number n
RECURSIVE NatChars(_)
NatChars(n) ==
  IF n < 10 THEN <<DigitChar(n)>>
  ELSE NatChars(n \div 10) \o <<DigitChar(n % 10)>>

\* Number.prototype.toString of a finite number: no trailing zeros
toString(v) ==
  LET mag == IF v < 0 THEN 0 - v ELSE v
      int == NatChars(mag \div 100)
      d1 == (mag \div 10) % 10
      d2 == mag % 10
      frac == IF d1 = 0 /\ d2 = 0 THEN <<>>
              ELSE IF d2 = 0 THEN <<".", DigitChar(d1)>>
              ELSE <<".", DigitChar(d1), DigitChar(d2)>>
  IN  (IF v < 0 THEN <<"-">> ELSE <<>>) \o int \o frac

(***************************************************************************)
(* Recognized text.                                                        *)
(***************************************************************************)
NL == "\n"

Numerals == {"82.5", "70", "32.5", "30", "18.5", "20", "5"}

\* the characters of a numeral token
Chars(tok) ==
  CASE tok = "82.5" -> <<"8", "2", ".", "5">>
    [] tok = "70"   -> <<"7", "0">>
    [] tok = "32.5" -> <<"3", "2", ".", "5">>
    [] tok = "30"   -> <<"3", "0">>
    [] tok = "18.5" -> <<"1", "8", ".", "5">>
    [] tok = "20"   -> <<"2", "0">>
    [] tok = "5"    -> <<"5">>
    [] OTHER        -> <<>>

\* the token at i, "" outside the text
Tok(t, i) == IF i >= 1 /\ i <= Len(t) THEN t[i] ELSE ""

\* \s* from i: the line breaks are the only white space that is a token
RECURSIVE SkipWs(_, _)
SkipWs(t, i) == IF Tok(t, i) = NL THEN SkipWs(t, i + 1) ELSE i

\* [:\s]* from i
RECURSIVE SkipSep(_, _)
SkipSep(t, i) == IF Tok(t, i) \in {":", NL} THEN SkipSep(t, i + 1) ELSE i

\* (\d+\.?\d*) at i: a numeral token
NumAt(t, i) == Tok(t, i) \in Numerals

\* ^(\d{2,3}\.?\d*) followed by white space or "kg": two or three leading
\* digits, then either the fraction or, with no fraction, further digits
LineNumAt(t, i) ==
  /\ NumAt(t, i)
  /\ LET c == Chars(t[i])
         n == DigitsEnd(c, 1) - 1
     IN  n >= 2 /\ (n <= 3 \/ n = Len(c))

LineStart(t, i) == i = 1 \/ Tok(t, i - 1) = NL
LineEnd(t, i) == i = Len(t) \/ Tok(t, i + 1) = NL

(***************************************************************************)
(* The pattern rules.  PatternAt(p, t, i) is the index of the numeral rule *)
(* p captures when it matches t from token i on, and 0 when it does not.   *)
(***************************************************************************)
Capture(t, j, ok) == IF ok THEN j ELSE 0

PatternAt(p, t, i) ==
  CASE p = "W1" ->   \* /weight[:\s]*(\d+\.?\d*)\s*kg/i
         LET j == SkipSep(t, i + 1)
         IN  Capture(t, j, Tok(t, i) = "weight" /\ NumAt(t, j)
                           /\ Tok(t, SkipWs(t, j + 1)) = "kg")
    [] p = "W2" ->   \* /body\s*weight[:\s]*(\d+\.?\d*)/i
         LET w == SkipWs(t, i + 1)
             j == SkipSep(t, w + 1)
         IN  Capture(t, j, Tok(t, i) = "body" /\ Tok(t, w) = "weight"
                           /\ NumAt(t, j))
    [] p = "W3" ->   \* /(\d+\.?\d*)\s*kg\s*(?:weight|body)/i
         LET k == SkipWs(t, i + 1)
         IN  Capture(t, i, NumAt(t, i) /\ Tok(t, k) = "kg"
                           /\ Tok(t, SkipWs(t, k + 1)) \in {"weight", "body"})
    [] p = "W4" ->   \* /^(\d{2,3}\.?\d*)\s*kg$/im
         LET k == SkipWs(t, i + 1)
         IN  Capture(t, i, LineStart(t, i) /\ LineNumAt(t, i)
                           /\ Tok(t, k) = "kg" /\ LineEnd(t, k))
    [] p = "M1" ->   \* /skeletal\s*muscle\s*mass[:\s]*(\d+\.?\d*)/i
         LET m == SkipWs(t, i + 1)
             a == SkipWs(t, m + 1)
             j == SkipSep(t, a + 1)
         IN  Capture(t, j, Tok(t, i) = "skeletal" /\ Tok(t, m) = "muscle"
                           /\ Tok(t, a) = "mass" /\ NumAt(t, j))
    [] p = "M2" ->   \* /smm[:\s]*(\d+\.?\d*)/i
         LET j == SkipSep(t, i + 1)
         IN  Capture(t, j, Tok(t, i) = "smm" /\ NumAt(t, j))
    [] p = "M3" ->   \* /muscle\s*mass[:\s]*(\d+\.?\d*)/i
         LET a == SkipWs(t, i + 1)
             j == SkipSep(t, a + 1)
         IN  Capture(t, j, Tok(t, i) = "muscle" /\ Tok(t, a) = "mass"
                           /\ NumAt(t, j))
    [] p = "M4" ->   \* /skeletal\s*muscle[:\s]*(\d+\.?\d*)/i
         LET m == SkipWs(t, i + 1)
             j == SkipSep(t, m + 1)
         IN  Capture(t, j, Tok(t, i) = "skeletal" /\ Tok(t, m) = "muscle"
                           /\ NumAt(t, j))
    [] p = "F1" ->   \* /body\s*fat\s*(?:percentage|%)?[:\s]*(\d+\.?\d*)/i
         LET f == SkipWs(t, i + 1)
             o == SkipWs(t, f + 1)
             j == SkipSep(t, IF Tok(t, o) \in {"percentage", "%"}
                             THEN o + 1 ELSE f + 1)
         IN  Capture(t, j, Tok(t, i) = "body" /\ Tok(t, f) = "fat"
                           /\ NumAt(t, j))
    [] p = "F2" ->   \* /pbf[:\s]*(\d+\.?\d*)/i
         LET j == SkipSep(t, i + 1)
         IN  Capture(t, j, Tok(t, i) = "pbf" /\ NumAt(t, j))
    [] p = "F3" ->   \* /fat\s*(?:percentage|%)[:\s]*(\d+\.?\d*)/i
         LET o == SkipWs(t, i + 1)
             j == SkipSep(t, o + 1)
         IN  Capture(t, j, Tok(t, i) = "fat"
                           /\ Tok(t, o) \in {"percentage", "%"} /\ NumAt(t, j))
    [] p = "F4" ->   \* /(\d+\.?\d*)\s*%\s*(?:body\s*fat|fat)/i
         LET o == SkipWs(t, i + 1)
             b == SkipWs(t, o + 1)
         IN  Capture(t, i, NumAt(t, i) /\ Tok(t, o) = "%"
                           /\ \/ Tok(t, b) = "fat"
                              \/ /\ Tok(t, b) = "body"
                                 /\ Tok(t, SkipWs(t, b + 1)) = "fat")

WEIGHT_PATTERNS == <<"W1", "W2", "W3", "W4">>
MUSCLE_PATTERNS == <<"M1", "M2", "M3", "M4">>
BODY_FAT_PATTERNS == <<"F1", "F2", "F3", "F4">>

\* text.match(pattern)[1]: the capture of the leftmost match, <<>> when the
\* pattern matches nowhere
match(text, pattern) ==
  LET hits == {i \in 1..Len(text) : PatternAt(pattern, text, i) # 0}
  IN  IF hits = {} THEN <<>>
      ELSE LET first == CHOOSE i \in hits : \A h \in hits : i <= h
           IN  Chars(text[PatternAt(pattern, text, first)])

\* extractNumber keeping the value of the last rule that matches
extractNumberLast(text, patterns, k) ==
  LET hits == {j \in k..Len(patterns) : match(text, patterns[j]) # <<>>}
  IN  IF hits = {} THEN null
      ELSE parseFloat(match(text, patterns[CHOOSE j \in hits :
                                               \A h \in hits : h <= j]))

\* the loop of extractNumber from rule k on: the value of rule k when it
\* matches (match && match[1]) and parses (!isNaN(value)), else the next rule
RECURSIVE extractNumberFrom(_, _, _)
extractNumberFrom(text, patterns, k) ==
  IF k > Len(patterns) THEN null
  ELSE LET values == {parseFloat(m) : m \in {match(text, patterns[k])} \ {<<>>}}
           found == {value \in values : ~isNaN(value)}
       IN  IF found # {} THEN CHOOSE value \in found : TRUE
           ELSE extractNumberFrom(text, patterns, k + 1)

extractNumber(text, patterns) == extractNumberFrom(text, patterns, 1)

\* a ratio num/den, kept as the pair the division is made of
Ratio(num, den) == [num |-> num, den |-> den]
RatioEq(a, b) == a.num * b.den = b.num * a.den

\* [weight, muscle, bodyFat].length, with no filter
allFields(weight, muscle, bodyFat) == Len(<<weight, muscle, bodyFat>>)

\* [weight, muscle, bodyFat].filter(v => v !== null).length
foundFields(weight, muscle, bodyFat) ==
  Len(SelectSeq(<<weight, muscle, bodyFat>>, LAMBDA v : v # null))

parseInBodyText(text) ==
  LET weight == extractNumber(text, WEIGHT_PATTERNS)
      muscle == extractNumber(text, MUSCLE_PATTERNS)
      bodyFat == extractNumber(text, BODY_FAT_PATTERNS)
  IN  [weight_kg |-> weight,
       skeletal_muscle_kg |-> muscle,
       body_fat_percentage |-> bodyFat,
       confidence |-> Ratio(foundFields(weight, muscle, bodyFat), 3)]

(***************************************************************************)
(* The recognition collaborator (Tesseract.recognize) and the provider.    *)
(* A file is readable, and then recognized as its text, or it makes the    *)
(* engine throw.                                                           *)
(***************************************************************************)
\* lines of an InBody report, and lines that look like one
Lines ==
  { <<"weight", ":", "82.5", "kg">>,
    <<"body", "weight", "70">>,
    <<"70", "kg", "body">>,
    <<"82.5", "kg">>,
    <<"5", "kg">>,
    <<"weight", "82.5">>,
    <<"skeletal", "muscle", "mass", "32.5">>,
    <<"smm", ":", "30">>,
    <<"muscle", "mass", "30">>,
    <<"skeletal", "muscle", "32.5">>,
    <<"body", "fat", "%", "18.5">>,
    <<"pbf", "20">>,
    <<"fat", "percentage", "20">>,
    <<"18.5", "%", "fat">>,
    <<"name">> }

\* the lines joined by line breaks
RECURSIVE JoinLines(_)
JoinLines(ls) ==
  IF ls = <<>> THEN <<>>
  ELSE IF Len(ls) = 1 THEN ls[1]
  ELSE ls[1] \o <<NL>> \o JoinLines(Tail(ls))

Texts == {JoinLines(ls) : ls \in UNION {[1..n -> Lines] : n \in 0..MaxLines}}

ReadableFile(text) == [readable |-> TRUE, text |-> text]
CorruptFile == [readable |-> FALSE, text |-> <<>>]

Resolved(v) == [state |-> "resolved", value |-> v]
Rejected == [state |-> "rejected"]
Pending == [state |-> "pending"]

\* tesseractProvider.extractInBodyData without its try/catch
tesseractExtractUnguarded(file) ==
  IF file.readable
  THEN Resolved(parseInBodyText(file.text) @@ [raw_text |-> file.text])
  ELSE Rejected

\* tesseractProvider.extractInBodyData: what the promise settles to, which
\* is {...parsed, raw_text: text} or, when the recognition throws, the
\* result of the catch block
tesseractExtract(file) ==
  IF file.readable
  THEN Resolved(parseInBodyText(file.text) @@ [raw_text |-> file.text])
  ELSE Resolved([weight_kg |-> null,
                 skeletal_muscle_kg |-> null,
                 body_fat_percentage |-> null,
                 confidence |-> Ratio(0, 1),
                 raw_text |-> <<>>])

\* services/ocr extractInBodyData: the active provider is tesseractProvider
\* (setOCRProvider has no caller)
extractInBodyData(file) == tesseractExtract(file)

VARIABLES
  ocrFile,   \* the file handed to extractInBodyData
  ocrPc,     \* "idle", "recognizing" (awaiting Tesseract.recognize), "settled"
  ocrOut     \* the promise extractInBodyData returned

ocrVars == <<ocrFile, ocrPc, ocrOut>>

\* extractInBodyData(file) up to the await of Tesseract.recognize
OcrCall ==
  /\ ocrPc = "idle"
  /\ ocrPc' = "recognizing"
  /\ UNCHANGED <<ocrFile, ocrOut>>

\* the recognition returns or throws, and the call settles
OcrSettle ==
  /\ ocrPc = "recognizing"
  /\ ocrPc' = "settled"
  /\ ocrOut' = extractInBodyData(ocrFile)
  /\ UNCHANGED ocrFile

(***************************************************************************)
(* The inbody_records table and the useInBodyRecords hook.                 *)
(*                                                                         *)
(* A session is one mounted InBody page (a browser tab) with its own hook  *)
(* state; who is signed in there is fixed when the page opens.             *)
(***************************************************************************)
Sessions == {"tabA", "tabB"}
Users == {"u1", "u2"}
NoUser == "none"

Dates == 1..MaxDay

\* the InBodyInsert values a validated form can hand to saveRecord
Inserts ==
  [date : Dates, weight_kg : {8200, 8150}, skeletal_muscle_kg : {3400},
   body_fat_percentage : {2000}]

NoInsert ==
  [date |-> 0, weight_kg |-> null, skeletal_muscle_kg |-> null,
   body_fat_percentage |-> null]

VARIABLES
  inbody_records,  \* the table: a set of rows
  nextId,          \* the next id gen_random_uuid() gives
  dbTime,          \* now() of the database: the statements it has run
  mounted,         \* mounted[s]: the page of session s is open
  user,            \* user[s]: useAuth().user, NoUser when signed out
  records,         \* records[s] (useState)
  isLoading,       \* isLoading[s] (useState)
  isSaving,        \* isSaving[s] (useState)
  saveCall,        \* saveCall[s]: the saveRecord call of s in flight
  fetchCall,       \* fetchCall[s][c]: the fetchRecords call c of s in flight
  toast            \* toast[s]: the last toast shown

storeVars ==
  <<inbody_records, nextId, dbTime, mounted, user, records, isLoading,
    isSaving, saveCall, fetchCall, toast>>

\* the callers of fetchRecords: the mount effect and saveRecord
FetchCallers == {"mount", "save"}

Idle == [pc |-> "idle", ok |-> TRUE, data |-> <<>>]
Sent == [pc |-> "sent", ok |-> TRUE, data |-> <<>>]
Answered(ok, data) == [pc |-> "answered", ok |-> ok, data |-> data]

NoSave == [pc |-> "idle", record |-> NoInsert]

\* the row of (uid, date), if any: UNIQUE(user_id, date)
Conflict(rows, uid, date) ==
  {r \in rows : r.user_id = uid /\ r.date = date}

NewRow(uid, rec, id, now) ==
  [id |-> id, user_id |-> uid, date |-> rec.date,
   weight_kg |-> rec.weight_kg,
   skeletal_muscle_kg |-> rec.skeletal_muscle_kg,
   body_fat_percentage |-> rec.body_fat_percentage,
   created_at |-> now]

\* INSERT with no ON CONFLICT clause, on a table without the constraint
InsertAlways(rows, uid, rec, id, now) ==
  rows \cup {NewRow(uid, rec, id, now)}

\* INSERT ... ON CONFLICT (user_id, date) DO NOTHING
InsertIgnore(rows, uid, rec, id, now) ==
  IF Conflict(rows, uid, rec.date) = {}
  THEN rows \cup {NewRow(uid, rec, id, now)}
  ELSE rows

\* .upsert({user_id, ...record}, {onConflict: 'user_id,date'}):
\* INSERT ... ON CONFLICT (user_id, date) DO UPDATE SET the columns given;
\* id and created_at of an existing row stay
Upsert(rows, uid, rec, id, now) ==
  IF Conflict(rows, uid, rec.date) = {}
  THEN rows \cup {NewRow(uid, rec, id, now)}
  ELSE {IF r \in Conflict(rows, uid, rec.date)
        THEN [r EXCEPT !.weight_kg = rec.weight_kg,
                       !.skeletal_muscle_kg = rec.skeletal_muscle_kg,
                       !.body_fat_percentage = rec.body_fat_percentage]
        ELSE r : r \in rows}

\* rows in the order of their ids, the order they were inserted in
RECURSIVE OrderById(_)
OrderById(rows) ==
  IF rows = {} THEN <<>>
  ELSE LET first == CHOOSE r \in rows : \A q \in rows : r.id <= q.id
       IN  <<first>> \o OrderById(rows \ {first})

\* rows in ascending date order (ties, which the constraint excludes, by id)
RECURSIVE OrderByDate(_)
OrderByDate(rows) ==
  IF rows = {} THEN <<>>
  ELSE LET first == CHOOSE r \in rows : \A q \in rows :
                      \/ r.date < q.date
                      \/ r.date = q.date /\ r.id <= q.id
       IN  <<first>> \o OrderByDate(rows \ {first})

\* .from('inbody_records').select('*').eq('user_id', uid).order('date')
SelectByUser(rows, uid) == OrderByDate({r \in rows : r.user_id = uid})

\* the InBody page of s opens with u signed in (or nobody): the hook's
\* initial state, and the effect calls fetchRecords when there is a user
Mount(s, u) ==
  /\ ~mounted[s]
  /\ mounted' = [mounted EXCEPT ![s] = TRUE]
  /\ user' = [user EXCEPT ![s] = u]
  /\ IF u # NoUser
     THEN fetchCall' = [fetchCall EXCEPT ![s]["mount"] = Sent]
     ELSE UNCHANGED fetchCall
  /\ UNCHANGED <<inbody_records, nextId, dbTime, records, isLoading,
                 isSaving, saveCall, toast>>

\* the database answers the select of fetchRecords call c, or the request
\* fails
FetchQuery(s, c) ==
  /\ fetchCall[s][c].pc = "sent"
  /\ \E ok \in BOOLEAN :
       fetchCall' = [fetchCall EXCEPT ![s][c] =
         Answered(ok, IF ok THEN SelectByUser(inbody_records, user[s])
                      ELSE <<>>)]
  /\ UNCHANGED <<inbody_records, nextId, dbTime, mounted, user, records,
                 isLoading, isSaving, saveCall, toast>>

\* fetchRecords after its await: setRecords(data), or the error toast; then
\* setIsLoading(false)
FetchSettle(s, c) ==
  /\ fetchCall[s][c].pc = "answered"
  /\ records' = IF fetchCall[s][c].ok
                THEN [records EXCEPT ![s] = fetchCall[s][c].data]
                ELSE records
  /\ isLoading' = [isLoading EXCEPT ![s] = FALSE]
  /\ fetchCall' = [fetchCall EXCEPT ![s][c] = Idle]

\* the answer to the mount effect's fetchRecords arrives
MountFetchDone(s) ==
  /\ FetchSettle(s, "mount")
  /\ toast' = IF fetchCall[s]["mount"].ok THEN toast
              ELSE [toast EXCEPT ![s] = "Failed to load InBody records."]
  /\ UNCHANGED <<inbody_records, nextId, dbTime, mounted, user, isSaving,
                 saveCall>>

\* the upserts that have succeeded and those that are in flight
Upserts == dbTime + Cardinality({s \in Sessions : saveCall[s].pc = "upsert"})

\* saveRecord(record) up to the await of the upsert; with no user it
\* returns false at once
SaveStart(s, rec) ==
  /\ mounted[s]
  /\ ~isSaving[s]
  /\ IF user[s] = NoUser
     THEN UNCHANGED <<isSaving, saveCall>>
     ELSE /\ isSaving' = [isSaving EXCEPT ![s] = TRUE]
          /\ saveCall' = [saveCall EXCEPT ![s] =
                            [pc |-> "upsert", record |-> rec]]
  /\ UNCHANGED <<inbody_records, nextId, dbTime, mounted, user, records,
                 isLoading, fetchCall, toast>>

\* the upsert succeeds: the success toast, and fetchRecords is called and
\* runs up to its await
SaveUpsertOk(s) ==
  /\ saveCall[s].pc = "upsert"
  /\ inbody_records' =
       Upsert(inbody_records, user[s], saveCall[s].record, nextId, dbTime + 1)
  /\ nextId' = IF Conflict(inbody_records, user[s], saveCall[s].record.date) = {}
               THEN nextId + 1 ELSE nextId
  /\ dbTime' = dbTime + 1
  /\ toast' = [toast EXCEPT ![s] = "InBody measurement saved successfully."]
  /\ saveCall' = [saveCall EXCEPT ![s].pc = "refetch"]
  /\ isLoading' = [isLoading EXCEPT ![s] = TRUE]
  /\ fetchCall' = [fetchCall EXCEPT ![s]["save"] = Sent]
  /\ UNCHANGED <<mounted, user, records, isSaving>>

\* the upsert fails (the backend is unreachable or rejects the write): the
\* catch block, the finally block, and saveRecord returns false
SaveUpsertFail(s) ==
  /\ saveCall[s].pc = "upsert"
  /\ toast' = [toast EXCEPT ![s] = "Failed to save measurement."]
  /\ isSaving' = [isSaving EXCEPT ![s] = FALSE]
  /\ saveCall' = [saveCall EXCEPT ![s] = NoSave]
  /\ UNCHANGED <<inbody_records, nextId, dbTime, mounted, user, records,
                 isLoading, fetchCall>>

\* the fetchRecords call of saveRecord settles (it catches its own error);
\* saveRecord returns true, and its finally block runs
SaveRefetchDone(s) ==
  /\ saveCall[s].pc = "refetch"
  /\ FetchSettle(s, "save")
  /\ toast' = IF fetchCall[s]["save"].ok THEN toast
              ELSE [toast EXCEPT ![s] = "Failed to load InBody records."]
  /\ isSaving' = [isSaving EXCEPT ![s] = FALSE]
  /\ saveCall' = [saveCall EXCEPT ![s] = NoSave]
  /\ UNCHANGED <<inbody_records, nextId, dbTime, mounted, user>>

(***************************************************************************)
(* InBodyForm, mounted in the page of the session FormSession.             *)
(***************************************************************************)
FormSession == "tabA"

\* format(new Date(), 'yyyy-MM-dd'): the last day of the model
Today == MaxDay

NumberFields == {"weight_kg", "skeletal_muscle_kg", "body_fat_percentage"}

\* the values the user types into the number inputs
TypedValues(field) ==
  CASE field = "weight_kg" -> { <<"7", "5">> }
    [] field = "skeletal_muscle_kg" -> { <<"3", "4">> }
    [] field = "body_fat_percentage" -> { <<"1", "8">> }

\* the reports the user uploads: all three values, the weight alone, no
\* value at all, and a file the engine cannot read
Uploads ==
  { ReadableFile(<<"weight", ":", "82.5", "kg", NL, "smm", ":", "30", NL,
                   "pbf", "20">>),
    ReadableFile(<<"body", "weight", "70">>),
    ReadableFile(<<"name">>),
    CorruptFile }

EmptyForm ==
  [date |-> Today, weight_kg |-> <<>>, skeletal_muscle_kg |-> <<>>,
   body_fat_percentage |-> <<>>]

NoErrors == [f \in NumberFields |-> FALSE]

NoUpload == [pc |-> "none", file |-> CorruptFile, formData |-> EmptyForm]

VARIABLES
  formData,         \* useState: the four inputs, as typed
  errors,           \* useState: errors[f], the field f shows a message
  isProcessingOCR,  \* useState
  ocrStatus,        \* useState: "idle", "success", "partial", "failed"
  ocrResult,        \* useState: the promise value bound, or NoResult
  uploads,          \* uploads[n]: the n-th handleFileUpload call
  uploadsStarted,   \* the handleFileUpload calls made so far
  edits             \* the handleInputChange calls made so far

formVars ==
  <<formData, errors, isProcessingOCR, ocrStatus, ocrResult, uploads,
    uploadsStarted, edits>>

vars == <<ocrVars, storeVars, formVars, restVars>>

NoResult ==
  [weight_kg |-> null, skeletal_muscle_kg |-> null,
   body_fat_percentage |-> null, confidence |-> Ratio(0, 1),
   raw_text |-> <<"(null)">>]

\* validateForm with the rule of the muscle mass applied to every field
validateFormPositive(data) ==
  [f \in NumberFields |-> isNaN(parseFloat(data[f])) \/ parseFloat(data[f]) <= 0]

\* validateForm: the fields that get a message
validateForm(data) ==
  LET weight == parseFloat(data.weight_kg)
      muscle == parseFloat(data.skeletal_muscle_kg)
      fat == parseFloat(data.body_fat_percentage)
  IN  [f \in NumberFields |->
         CASE f = "weight_kg" ->
                isNaN(weight) \/ weight < 20 * 100 \/ weight > 300 * 100
           [] f = "skeletal_muscle_kg" ->
                isNaN(muscle) \/ muscle <= 0
           [] f = "body_fat_percentage" ->
                isNaN(fat) \/ fat < 3 * 100 \/ fat > 60 * 100]

\* Object.keys(validationErrors).length > 0
HasErrors(e) == \E f \in NumberFields : e[f]

\* the InBodyInsert handleSubmit builds
FormRecord(data) ==
  [date |-> data.date,
   weight_kg |-> parseFloat(data.weight_kg),
   skeletal_muscle_kg |-> parseFloat(data.skeletal_muscle_kg),
   body_fat_percentage |-> parseFloat(data.body_fat_percentage)]

\* handleInputChange(field, value) of a number input
InputNumber(field, value) ==
  /\ mounted[FormSession]
  /\ edits < MaxEdits
  /\ edits' = edits + 1
  /\ formData' = [formData EXCEPT ![field] = value]
  /\ errors' = IF errors[field] THEN [errors EXCEPT ![field] = FALSE]
               ELSE errors
  /\ UNCHANGED <<isProcessingOCR, ocrStatus, ocrResult, uploads,
                 uploadsStarted>>
  /\ UNCHANGED <<ocrVars, storeVars, restVars>>

\* handleInputChange('date', value): errors has no entry for the date
InputDate(value) ==
  /\ mounted[FormSession]
  /\ edits < MaxEdits
  /\ edits' = edits + 1
  /\ formData' = [formData EXCEPT !.date = value]
  /\ UNCHANGED <<errors, isProcessingOCR, ocrStatus, ocrResult, uploads,
                 uploadsStarted>>
  /\ UNCHANGED <<ocrVars, storeVars, restVars>>

\* handleSubmit when validateForm reports an error: setErrors, and return
SubmitInvalid ==
  /\ mounted[FormSession]
  /\ ~isSaving[FormSession]
  /\ HasErrors(validateForm(formData))
  /\ errors' = validateForm(formData)
  /\ UNCHANGED <<formData, isProcessingOCR, ocrStatus, ocrResult, uploads,
                 uploadsStarted, edits>>
  /\ UNCHANGED <<ocrVars, storeVars, restVars>>

\* handleSubmit when the form validates: onSave(record) up to its await
SubmitValid ==
  /\ Upserts < MaxFormSaves
  /\ ~HasErrors(validateForm(formData))
  /\ SaveStart(FormSession, FormRecord(formData))
  /\ UNCHANGED <<ocrVars, formVars, restVars>>

\* the body of `if (success)` in handleSubmit
ResetForm ==
  /\ formData' = EmptyForm
  /\ ocrStatus' = "idle"
  /\ ocrResult' = NoResult

\* handleSubmit resetting the form without looking at what onSave returned
AfterSaveAlways(success) == ResetForm

\* handleSubmit after `await onSave(record)`
AfterSave(success) ==
  IF success THEN ResetForm
  ELSE UNCHANGED <<formData, ocrStatus, ocrResult>>

\* onSave returned false
SubmitFailed ==
  /\ SaveUpsertFail(FormSession)
  /\ AfterSave(FALSE)
  /\ UNCHANGED <<errors, isProcessingOCR, uploads, uploadsStarted, edits>>
  /\ UNCHANGED <<ocrVars, restVars>>

\* onSave returned true
SubmitSaved ==
  /\ SaveRefetchDone(FormSession)
  /\ AfterSave(TRUE)
  /\ UNCHANGED <<errors, isProcessingOCR, uploads, uploadsStarted, edits>>
  /\ UNCHANGED <<ocrVars, restVars>>

\* the fields of the result that are not null
Found(result) ==
  {f \in NumberFields : result[f] # null}

\* newFormData: the form data handleFileUpload closed over, with the fields
\* the result holds replaced by their toString()
Prefill(data, result) ==
  [k \in DOMAIN data |->
     IF k \in Found(result) THEN toString(result[k]) ELSE data[k]]

\* handleFileUpload(file) up to the await of extractInBodyData
UploadStart(file) ==
  /\ mounted[FormSession]
  /\ uploadsStarted < MaxUploads
  /\ uploadsStarted' = uploadsStarted + 1
  /\ isProcessingOCR' = TRUE
  /\ ocrStatus' = "idle"
  /\ ocrResult' = NoResult
  /\ uploads' = [uploads EXCEPT ![uploadsStarted + 1] =
                   [pc |-> "running", file |-> file, formData |-> formData]]
  /\ UNCHANGED <<formData, errors, edits>>
  /\ UNCHANGED <<ocrVars, storeVars, restVars>>

\* handleFileInput: the file input is disabled while isProcessingOCR
HandleFileInput(file) ==
  /\ ~isProcessingOCR
  /\ UploadStart(file)

\* handleDrop: a file that is neither an image nor a PDF is ignored
HandleDrop(file, accepted) ==
  /\ mounted[FormSession]
  /\ IF accepted THEN UploadStart(file) ELSE UNCHANGED vars

\* the status handleFileUpload sets for fieldsFound
StatusOf(fieldsFound) ==
  IF fieldsFound = 3 THEN "success"
  ELSE IF fieldsFound > 0 THEN "partial"
  ELSE "failed"

\* setIsProcessingOCR(false) placed where only a full result reaches it
UploadFinallyOnSuccess(status) == status # "success"

\* the finally block of handleFileUpload: setIsProcessingOCR(false)
UploadFinally(status) == FALSE

\* handleFileUpload after its await: the result is bound to the form, or
\* the catch block runs; then the finally block
UploadDone(n) ==
  /\ uploads[n].pc = "running"
  /\ \E p \in {extractInBodyData(uploads[n].file)} :
     \E status \in {IF p.state = "resolved"
                     THEN StatusOf(Cardinality(Found(p.value)))
                     ELSE "failed"} :
       /\ IF p.state = "resolved"
          THEN /\ ocrResult' = p.value
               /\ formData' = Prefill(uploads[n].formData, p.value)
          ELSE UNCHANGED <<ocrResult, formData>>
       /\ ocrStatus' = status
       /\ isProcessingOCR' = UploadFinally(status)
  /\ uploads' = [uploads EXCEPT ![n] =
                   [pc |-> "done", file |-> uploads[n].file,
                    formData |-> EmptyForm]]
  /\ UNCHANGED <<errors, uploadsStarted, edits>>
  /\ UNCHANGED <<ocrVars, storeVars, restVars>>

(***************************************************************************)
(* Insights: getInsights and getMonthlyInsights of useInBodyRecords, and   *)
(* the coach's ClientInsightsPanel.                                        *)
(*                                                                         *)
(* A date 'yyyy-MM-dd' is the number of its day in 2024 (2024-01-01 is day *)
(* 1, 2024-03-01 day 61, 2024-04-01 day 92); new Date(date) is midnight    *)
(* UTC of that day.  Instants are in seconds, and the local time zone of   *)
(* the browser is UTC.                                                     *)
(***************************************************************************)
\* 1000 * 60 * 60 * 24 milliseconds
SecPerDay == 60 * 60 * 24

\* new Date(date).getTime()
getTime(date) == date * SecPerDay

\* Math.ceil(a / b), b > 0
ceil(a, b) == 0 - ((0 - a) \div b)

\* Number(x.toFixed(1)): toFixed takes the sign off, picks the n with
\* n / 10 closest to |x|, the larger n on a tie, and puts the sign back
toFixed(v) ==
  IF v >= 0 THEN ((v + 5) \div 10) * 10 ELSE 0 - (((0 - v) + 5) \div 10) * 10

\* Math.round(x * 10) / 10: Math.round is floor(y + 0.5), a tie goes up
round(v) == ((v + 5) \div 10) * 10

\* the InBodyInsights without data
NoData(periodDays) ==
  [weightChange |-> null, muscleChange |-> null, fatChange |-> null,
   periodDays |-> periodDays]

\* no call has returned yet
NotCalled ==
  [weightChange |-> null, muscleChange |-> null, fatChange |-> null,
   periodDays |-> null]

\* the InBodyInsights the hook builds from two records
Changes(oldest, latest, periodDays) ==
  [weightChange |-> toFixed(latest.weight_kg - oldest.weight_kg),
   muscleChange |->
     toFixed(latest.skeletal_muscle_kg - oldest.skeletal_muscle_kg),
   fatChange |->
     toFixed(latest.body_fat_percentage - oldest.body_fat_percentage),
   periodDays |-> periodDays]

\* getInsights with records[records.length - 2] as the oldest record
getInsightsAdjacent(recs) ==
  IF Len(recs) < 2 THEN NoData(0)
  ELSE LET latest == recs[Len(recs)]
           oldest == recs[Len(recs) - 1]
       IN  Changes(oldest, latest,
                   ceil(getTime(latest.date) - getTime(oldest.date),
                        SecPerDay))

\* getInsights with the guard records.length < 1
getInsightsOfOne(recs) ==
  IF Len(recs) < 1 THEN NoData(0)
  ELSE LET latest == recs[Len(recs)]
           oldest == recs[1]
       IN  Changes(oldest, latest,
                   ceil(getTime(latest.date) - getTime(oldest.date),
                        SecPerDay))

\* getInsights() on the records of the hook
getInsights(recs) ==
  IF Len(recs) < 2 THEN NoData(0)
  ELSE LET latest == recs[Len(recs)]
           oldest == recs[1]
       IN  Changes(oldest, latest,
                   ceil(getTime(latest.date) - getTime(oldest.date),
                        SecPerDay))

\* getMonthlyInsights() on the records of the hook, at the instant now
getMonthlyInsights(recs, now) ==
  LET thirtyDaysAgo == now - 30 * SecPerDay
      InMonth(r) == getTime(r.date) >= thirtyDaysAgo
      monthRecords == SelectSeq(recs, InMonth)
  IN  IF Len(monthRecords) < 2 THEN NoData(30)
      ELSE Changes(monthRecords[1], monthRecords[Len(monthRecords)], 30)

\* const insights = getInsights() of the InBody page
CallGetInsights ==
  /\ mounted[FormSession]
  /\ rangeInsights' = getInsights(records[FormSession])
  /\ UNCHANGED <<clock, monthlyInsights>>
  /\ UNCHANGED <<ocrVars, storeVars, formVars, panelVars, seedVars,
                 coachVars,
                 lateVars>>

\* a component calls getMonthlyInsights() of the hook
CallGetMonthlyInsights ==
  /\ mounted[FormSession]
  /\ monthlyInsights' = getMonthlyInsights(records[FormSession], clock)
  /\ UNCHANGED <<clock, rangeInsights>>
  /\ UNCHANGED <<ocrVars, storeVars, formVars, panelVars, seedVars,
                 coachVars,
                 lateVars>>

(***************************************************************************)
(* ClientInsightsPanel.  Of its InsightData the three trends are kept; the *)
(* profile and attendance figures, which the trends and the InBody         *)
(* insights do not depend on, are left out.                                *)
(***************************************************************************)
\* the first days of the months of 2024 (date-fns startOfMonth)
MonthStarts == {1, 32, 61, 92, 122, 153}

\* startOfMonth(now)
startOfMonth(now) ==
  LET day == now \div SecPerDay
      first == CHOOSE m \in MonthStarts :
                 m <= day /\ \A q \in MonthStarts : q <= day => q <= m
  IN  getTime(first)

\* differenceInDays(later, earlier): the full days between them
differenceInDays(later, earlier) == (later - earlier) \div SecPerDay

NoTrend == "null"

\* getTrend with Math.abs(diff) <= 0.5 for "stable"
getTrendInclusive(recs, key) ==
  IF Len(recs) < 2 THEN NoTrend
  ELSE LET latest == recs[Len(recs)][key]
           previous == recs[1][key]
           diff == latest - previous
       IN  IF (IF diff < 0 THEN 0 - diff ELSE diff) <= 50 THEN "stable"
           ELSE IF diff > 0 THEN "up" ELSE "down"

\* getTrend(records, key)
getTrend(recs, key) ==
  IF Len(recs) < 2 THEN NoTrend
  ELSE LET latest == recs[Len(recs)][key]
           previous == recs[1][key]
           diff == latest - previous
       IN  IF (IF diff < 0 THEN 0 - diff ELSE diff) < 50 THEN "stable"
           ELSE IF diff > 0 THEN "up" ELSE "down"

\* useState<InsightData | null>(null)
NoInsightData ==
  [present |-> FALSE, weightTrend |-> NoTrend, fatTrend |-> NoTrend,
   muscleTrend |-> NoTrend]

NoPanelCall ==
  [pc |-> "none", clientId |-> NoUser, inbodyRecords |-> <<>>,
   data |-> <<>>]

\* the fetchInsights calls made so far
panelLoads == Cardinality({n \in 1..MaxLoads : panelCall[n].pc # "none"})

\* the records of typed the panel takes for the month
monthRecordsOf(typed, now) ==
  LET monthStart == startOfMonth(now)
      InMonth(r) == getTime(r.date) >= monthStart
  IN  SelectSeq(typed, InMonth)

\* the InBodyInsights the panel builds from the first and last record
PanelChanges(first, last, periodDays) ==
  [weightChange |-> round(last.weight_kg - first.weight_kg),
   muscleChange |->
     round(last.skeletal_muscle_kg - first.skeletal_muscle_kg),
   fatChange |->
     round(last.body_fat_percentage - first.body_fat_percentage),
   periodDays |-> periodDays]

\* the panel is shown for client c, or its clientId prop changes to c: the
\* effect calls fetchInsights, which closes over the state of that render
PanelShow(c) ==
  /\ c # clientId
  /\ panelLoads < MaxLoads
  /\ clientId' = c
  /\ panelLoading' = TRUE
  /\ panelCall' =
       [panelCall EXCEPT ![panelLoads + 1] =
          [pc |-> "sent", clientId |-> c, inbodyRecords |-> inbodyRecords,
           data |-> <<>>]]
  /\ UNCHANGED <<inbodyRecords, inbodyInsights, insights>>
  /\ UNCHANGED <<ocrVars, storeVars, formVars, insightVars, seedVars,
                 coachVars,
                 lateVars>>

\* the database answers the selects of call n; the one on inbody_records
\* is .eq("user_id", clientId).order("date", {ascending: true})
PanelQuery(n) ==
  /\ panelCall[n].pc = "sent"
  /\ panelCall' =
       [panelCall EXCEPT ![n].pc = "answered",
                         ![n].data =
                           SelectByUser(inbody_records, panelCall[n].clientId)]
  /\ UNCHANGED <<clientId, inbodyRecords, inbodyInsights, insights,
                 panelLoading>>
  /\ UNCHANGED <<ocrVars, storeVars, formVars, insightVars, seedVars,
                 coachVars,
                 lateVars>>

\* call n goes on after its awaits: setInbodyRecords, setInbodyInsights
\* when the month holds two records, setInsights, setIsLoading(false)
PanelDone(n) ==
  /\ panelCall[n].pc = "answered"
  /\ \E typedInbodyRecords \in {panelCall[n].data} :
     \E monthRecords \in {monthRecordsOf(panelCall[n].data, clock)} :
       /\ inbodyRecords' = typedInbodyRecords
       /\ inbodyInsights' =
            IF Len(monthRecords) >= 2
            THEN PanelChanges(monthRecords[1],
                              monthRecords[Len(monthRecords)],
                              differenceInDays(clock, startOfMonth(clock)))
            ELSE inbodyInsights
  /\ insights' =
       [present |-> TRUE,
        weightTrend |-> getTrend(panelCall[n].inbodyRecords, "weight_kg"),
        fatTrend |->
          getTrend(panelCall[n].inbodyRecords, "body_fat_percentage"),
        muscleTrend |->
          getTrend(panelCall[n].inbodyRecords, "skeletal_muscle_kg")]
  /\ panelLoading' = FALSE
  /\ panelCall' = [panelCall EXCEPT ![n].pc = "done"]
  /\ UNCHANGED clientId
  /\ UNCHANGED <<ocrVars, storeVars, formVars, insightVars, seedVars,
                 coachVars,
                 lateVars>>

(***************************************************************************)
(* The seed script (scripts/seed.ts, `npm run seed`), which runs with the  *)
(* service role key.  A user's id stands for its e-mail address, which     *)
(* auth.users keeps unique; the columns of a profile row are condensed to  *)
(* whether they hold the script's values.                                  *)
(***************************************************************************)
SeedPeople == {"admin", "coach", "client"}

\* daysInMonth.slice(-14)
SeedDays == 14

NoSeedDb ==
  [users |-> {}, user_roles |-> {}, profiles |-> {}, coach_profiles |-> {},
   client_profiles |-> {}, attendance |-> {}, workout_plans |-> {},
   diet_plans |-> {}, coach_notes |-> {}, nextId |-> 1]

\* auth.admin.createUser for who, and the trigger handle_new_user: a
\* profile with the name of the metadata, the role, and an empty coach or
\* client profile
Signup(db, who) ==
  [db EXCEPT
     !.users = @ \cup {who},
     !.profiles = @ \cup {[user_id |-> who, named |-> TRUE]},
     !.user_roles = @ \cup {[user_id |-> who, role |-> who]},
     !.coach_profiles =
       IF who = "coach" THEN @ \cup {[user_id |-> who, seeded |-> FALSE]}
       ELSE @,
     !.client_profiles =
       IF who = "client" THEN @ \cup {[user_id |-> who, seeded |-> FALSE]}
       ELSE @]

\* the awaited calls of main() in their order
SeedScript ==
  << [op |-> "createUser", who |-> "admin", k |-> 0],
     [op |-> "role", who |-> "admin", k |-> 0],
     [op |-> "createUser", who |-> "coach", k |-> 0],
     [op |-> "role", who |-> "coach", k |-> 0],
     [op |-> "profile", who |-> "coach", k |-> 0],
     [op |-> "name", who |-> "coach", k |-> 0],
     [op |-> "createUser", who |-> "client", k |-> 0],
     [op |-> "role", who |-> "client", k |-> 0],
     [op |-> "profile", who |-> "client", k |-> 0],
     [op |-> "name", who |-> "client", k |-> 0],
     [op |-> "assignment", who |-> "client", k |-> 0] >>
  \o [i \in 1..SeedDays |-> [op |-> "attendance", who |-> "client", k |-> i - 1]]
  \o << [op |-> "deactivate", who |-> "workout_plans", k |-> 0],
        [op |-> "insert", who |-> "workout_plans", k |-> 0],
        [op |-> "deactivate", who |-> "diet_plans", k |-> 0],
        [op |-> "insert", who |-> "diet_plans", k |-> 0],
        [op |-> "note", who |-> "coach", k |-> 0],
        [op |-> "note", who |-> "coach", k |-> 1],
        [op |-> "note", who |-> "coach", k |-> 2] >>

\* the call main() is waiting for
SeedAt(op) == seedPc > 0 /\ SeedScript[seedPc].op = op

\* the awaited call returns: main() goes on to the next one, or ends
SeedGoesOn ==
  /\ seedPc' = IF seedPc = Len(SeedScript) THEN 0 ELSE seedPc + 1
  /\ seedRuns' = IF seedPc = Len(SeedScript) THEN seedRuns + 1 ELSE seedRuns

\* the status of the index-th day to seed
SeedStatus(index) ==
  IF index % 7 = 6 THEN "rest"
  ELSE IF index % 10 = 9 THEN "missed"
  ELSE "trained"

\* the rows of the table with another key than key
Others(rows, key) == {r \in rows : r.user_id # key}

\* `npm run seed`
SeedMain ==
  /\ seedPc = 0
  /\ seedRuns < MaxRuns
  /\ seedPc' = 1
  /\ UNCHANGED <<seedDb, seedRuns, coach_client_assignments>>
  /\ UNCHANGED <<ocrVars, storeVars, formVars, insightVars, panelVars,
                 coachPages,
                 lateVars>>

\* auth.admin.createUser; on its error (the e-mail is registered) the user
\* is looked up with listUsers
SeedCreateUser ==
  /\ SeedAt("createUser")
  /\ seedDb' = IF SeedScript[seedPc].who \in seedDb.users THEN seedDb
               ELSE Signup(seedDb, SeedScript[seedPc].who)
  /\ SeedGoesOn
  /\ UNCHANGED coach_client_assignments
  /\ UNCHANGED <<ocrVars, storeVars, formVars, insightVars, panelVars,
                 coachPages,
                 lateVars>>

\* user_roles.upsert({user_id, role}, {onConflict: 'user_id,role'})
SeedUpsertRole ==
  /\ SeedAt("role")
  /\ seedDb' =
       [seedDb EXCEPT !.user_roles =
          @ \cup {[user_id |-> SeedScript[seedPc].who,
                   role |-> SeedScript[seedPc].who]}]
  /\ SeedGoesOn
  /\ UNCHANGED coach_client_assignments
  /\ UNCHANGED <<ocrVars, storeVars, formVars, insightVars, panelVars,
                 coachPages,
                 lateVars>>

\* coach_profiles / client_profiles .upsert({...}, {onConflict: 'user_id'})
SeedUpsertProfile ==
  /\ SeedAt("profile")
  /\ \E who \in {SeedScript[seedPc].who} :
       seedDb' =
         IF who = "coach"
         THEN [seedDb EXCEPT !.coach_profiles =
                 Others(@, who) \cup {[user_id |-> who, seeded |-> TRUE]}]
         ELSE [seedDb EXCEPT !.client_profiles =
                 Others(@, who) \cup {[user_id |-> who, seeded |-> TRUE]}]
  /\ SeedGoesOn
  /\ UNCHANGED coach_client_assignments
  /\ UNCHANGED <<ocrVars, storeVars, formVars, insightVars, panelVars,
                 coachPages,
                 lateVars>>

\* profiles.update({full_name}).eq('user_id', id)
SeedUpdateName ==
  /\ SeedAt("name")
  /\ seedDb' =
       [seedDb EXCEPT !.profiles =
          {IF r.user_id = SeedScript[seedPc].who
           THEN [r EXCEPT !.named = TRUE] ELSE r : r \in @}]
  /\ SeedGoesOn
  /\ UNCHANGED coach_client_assignments
  /\ UNCHANGED <<ocrVars, storeVars, formVars, insightVars, panelVars,
                 coachPages,
                 lateVars>>

\* coach_client_assignments.upsert({coach_id, client_id, is_active: true},
\* {onConflict: 'coach_id,client_id'})
SeedAssignment ==
  /\ SeedAt("assignment")
  /\ coach_client_assignments' =
       {a \in coach_client_assignments :
          ~(a.coach_id = "coach" /\ a.client_id = "client")}
       \cup {[coach_id |-> "coach", client_id |-> "client",
              is_active |-> TRUE]}
  /\ SeedGoesOn
  /\ UNCHANGED seedDb
  /\ UNCHANGED <<ocrVars, storeVars, formVars, insightVars, panelVars,
                 coachPages,
                 lateVars>>

\* attendance.upsert(record, {onConflict: 'user_id,date'}) of one day
SeedAttendance ==
  /\ SeedAt("attendance")
  /\ \E index \in {SeedScript[seedPc].k} :
       seedDb' =
         [seedDb EXCEPT !.attendance =
            {r \in @ : ~(r.user_id = "client" /\ r.date = index)}
            \cup {[user_id |-> "client", date |-> index,
                   status |-> SeedStatus(index)]}]
  /\ SeedGoesOn
  /\ UNCHANGED coach_client_assignments
  /\ UNCHANGED <<ocrVars, storeVars, formVars, insightVars, panelVars,
                 coachPages,
                 lateVars>>

\* .update({is_active: false}).eq('coach_id', ..).eq('client_id', ..)
\* .eq('is_active', true) on workout_plans or diet_plans
SeedDeactivatePlan ==
  /\ SeedAt("deactivate")
  /\ \E table \in {SeedScript[seedPc].who} :
       seedDb' =
         [seedDb EXCEPT ![table] = {[r EXCEPT !.is_active = FALSE] : r \in @}]
  /\ SeedGoesOn
  /\ UNCHANGED coach_client_assignments
  /\ UNCHANGED <<ocrVars, storeVars, formVars, insightVars, panelVars,
                 coachPages,
                 lateVars>>

\* .insert({coach_id, client_id, title, ..., version: 1, is_active: true})
\* on workout_plans or diet_plans
SeedInsertPlan ==
  /\ SeedAt("insert")
  /\ \E table \in {SeedScript[seedPc].who} :
       seedDb' =
         [seedDb EXCEPT
            ![table] = @ \cup {[id |-> seedDb.nextId, coach_id |-> "coach",
                                client_id |-> "client", version |-> 1,
                                is_active |-> TRUE]},
            !.nextId = @ + 1]
  /\ SeedGoesOn
  /\ UNCHANGED coach_client_assignments
  /\ UNCHANGED <<ocrVars, storeVars, formVars, insightVars, panelVars,
                 coachPages,
                 lateVars>>

\* coach_notes.insert({...notes[i], created_at, updated_at})
SeedNote ==
  /\ SeedAt("note")
  /\ seedDb' =
       [seedDb EXCEPT
          !.coach_notes = @ \cup {[id |-> seedDb.nextId, coach_id |-> "coach",
                                   client_id |-> "client",
                                   content |-> SeedScript[seedPc].k]},
          !.nextId = @ + 1]
  /\ SeedGoesOn
  /\ UNCHANGED coach_client_assignments
  /\ UNCHANGED <<ocrVars, storeVars, formVars, insightVars, panelVars,
                 coachPages,
                 lateVars>>

(***************************************************************************)
(* Coach assignments: joinCoach (CoachMarketplace), confirmPayment         *)
(* (CoachProfilePage), respondToRequest (useCoachingRequests) and          *)
(* handleChangeCoach (CoachPage, ClientDashboard), and createRequest and    *)
(* cancelRequest (useCoachingRequests), for one client and the requests    *)
(* that client has sent.  The policies of coaching_requests are those of   *)
(* its migration.  For coach_client_assignments the initial schema admits  *)
(* an insert by the client and nothing else; whether later migrations      *)
(* admit the updates and the coach's insert is not known, and policies     *)
(* holds one case or the other.  Toasts, navigation and the refetch of the *)
(* request list are left out.                                              *)
(***************************************************************************)
Client == "u1"
Coaches == {"k1", "k2"}
NoCoach == "none"
Tabs == {1, 2}

NoJoin == [pc |-> "idle", coach_id |-> NoCoach]
NoRespond == [pc |-> "idle", id |-> 0, status |-> "none", returned |-> "none"]
NoCreate == [pc |-> "idle", coach_id |-> NoCoach, returned |-> "none"]

\* a row of coaching_requests as the insert of createRequest leaves it:
\* status DEFAULT 'pending'; the id of a row is its place in the table
NewRequest(coach) ==
  [client_id |-> Client, coach_id |-> coach, status |-> "pending"]

\* the client has asked each coach once
PendingToEach == <<NewRequest("k1"), NewRequest("k2")>>

\* the row of (coach, client), if any: UNIQUE (coach_id, client_id)
AssignmentOf(rows, coach, client) ==
  {a \in rows : a.coach_id = coach /\ a.client_id = client}

\* FOR UPDATE: the initial schema has no policy for an update by a coach or
\* a client, so the statement changes no row and reports no error
MayUpdateAssignment == policies = "open"

\* FOR INSERT WITH CHECK (auth.uid() = client_id) in the initial schema
MayInsertAssignment(actor, client) == policies = "open" \/ actor = client

\* .update({is_active: false}).eq("client_id", client), with or without
\* .eq("is_active", true): the rows are the same afterwards
Deactivate(rows, client) ==
  IF MayUpdateAssignment
  THEN {IF a.client_id = client THEN [a EXCEPT !.is_active = FALSE] ELSE a :
          a \in rows}
  ELSE rows

\* .upsert({client_id, coach_id, is_active: true},
\*         {onConflict: "client_id,coach_id"}) by the client: an insert, or
\* on conflict an update of the row, which needs an update policy
UpsertAssignment(rows, coach, client) ==
  IF AssignmentOf(rows, coach, client) # {} /\ ~MayUpdateAssignment
  THEN [error |-> TRUE, rows |-> rows]
  ELSE [error |-> FALSE,
        rows |-> (rows \ AssignmentOf(rows, coach, client))
                   \cup {[coach_id |-> coach, client_id |-> client,
                          is_active |-> TRUE]}]

\* .insert({coach_id, client_id, is_active: true}) by actor: the policy
\* must admit the row, and the unique constraint rejects a second row of
\* (coach, client)
InsertAssignment(rows, coach, client, actor) ==
  IF MayInsertAssignment(actor, client)
       /\ AssignmentOf(rows, coach, client) = {}
  THEN [error |-> FALSE,
        rows |-> rows \cup {[coach_id |-> coach, client_id |-> client,
                             is_active |-> TRUE]}]
  ELSE [error |-> TRUE, rows |-> rows]

\* the update without the policies' "status = 'pending'"
UpdateRequestAnyStatus(rows, id, status) ==
  [rows EXCEPT ![id].status = status]

\* an update of the status of request id by its coach or its client: both
\* policies have USING (... AND status = 'pending'), so a row that is not
\* pending is not changed, and the statement reports no error
UpdateRequest(rows, id, status) ==
  IF rows[id].status = "pending"
  THEN [rows EXCEPT ![id].status = status]
  ELSE rows

\* joinCoach(coachId) up to the await of the update
JoinStart(k) ==
  /\ joinCall.pc = "idle"
  /\ joinCall' = [pc |-> "deactivate", coach_id |-> k]
  /\ UNCHANGED <<coach_client_assignments, coaching_requests, currentCoach,
                 payCall, profileCoach, respondCall>>
  /\ UNCHANGED <<ocrVars, storeVars, formVars, insightVars, panelVars,
                 seedVars, lateVars>>

\* the update of joinCoach runs; joinCoach sends the upsert
JoinDeactivate ==
  /\ joinCall.pc = "deactivate"
  /\ coach_client_assignments' = Deactivate(coach_client_assignments, Client)
  /\ joinCall' = [joinCall EXCEPT !.pc = "upsert"]
  /\ UNCHANGED <<coaching_requests, currentCoach, payCall, profileCoach,
                 respondCall>>
  /\ UNCHANGED <<ocrVars, storeVars, formVars, insightVars, panelVars,
                 seedVars, lateVars>>

\* the upsert of joinCoach runs: setCurrentCoach unless it failed, and the
\* finally block
JoinUpsert ==
  /\ joinCall.pc = "upsert"
  /\ \E done \in {UpsertAssignment(coach_client_assignments,
                                    joinCall.coach_id, Client)} :
       /\ coach_client_assignments' = done.rows
       /\ currentCoach' = IF done.error THEN currentCoach
                          ELSE joinCall.coach_id
  /\ joinCall' = NoJoin
  /\ UNCHANGED <<coaching_requests, payCall, profileCoach, respondCall>>
  /\ UNCHANGED <<ocrVars, storeVars, formVars, insightVars, panelVars,
                 seedVars, lateVars>>

\* confirmPayment() on the profile page of coach k, up to the first await
PayStart(k) ==
  /\ payCall.pc = "idle"
  /\ payCall' = [pc |-> "deactivate", coach_id |-> k]
  /\ UNCHANGED <<coach_client_assignments, coaching_requests, currentCoach,
                 joinCall, profileCoach, respondCall>>
  /\ UNCHANGED <<ocrVars, storeVars, formVars, insightVars, panelVars,
                 seedVars, lateVars>>

\* the update of confirmPayment runs; it sends the insert
PayDeactivate ==
  /\ payCall.pc = "deactivate"
  /\ coach_client_assignments' = Deactivate(coach_client_assignments, Client)
  /\ payCall' = [payCall EXCEPT !.pc = "insert"]
  /\ UNCHANGED <<coaching_requests, currentCoach, joinCall, profileCoach,
                 respondCall>>
  /\ UNCHANGED <<ocrVars, storeVars, formVars, insightVars, panelVars,
                 seedVars, lateVars>>

\* the insert of confirmPayment runs: setCurrentCoach unless it failed
PayInsert ==
  /\ payCall.pc = "insert"
  /\ \E done \in {InsertAssignment(coach_client_assignments,
                                    payCall.coach_id, Client, Client)} :
       /\ coach_client_assignments' = done.rows
       /\ profileCoach' = IF done.error THEN profileCoach
                          ELSE payCall.coach_id
  /\ payCall' = NoJoin
  /\ UNCHANGED <<coaching_requests, currentCoach, joinCall, respondCall>>
  /\ UNCHANGED <<ocrVars, storeVars, formVars, insightVars, panelVars,
                 seedVars, lateVars>>

\* handleChangeCoach: the update that removes the client's coach
ChangeCoach ==
  /\ coach_client_assignments' = Deactivate(coach_client_assignments, Client)
  /\ UNCHANGED <<coaching_requests, currentCoach, joinCall, payCall,
                 profileCoach, respondCall>>
  /\ UNCHANGED <<ocrVars, storeVars, formVars, insightVars, panelVars,
                 seedVars, lateVars>>

\* coach k calls respondToRequest(id, status) from the card of a request:
\* the list of cards was fetched when the request was pending, and may be
\* older than the table.  Up to the await of the select
RespondStart(k, id, status) ==
  /\ respondCall[k].pc = "idle"
  /\ id \in DOMAIN coaching_requests
  /\ coaching_requests[id].coach_id = k
  /\ respondCall' = [respondCall EXCEPT ![k] =
                       [pc |-> "select", id |-> id, status |-> status,
                        returned |-> "none"]]
  /\ UNCHANGED <<coach_client_assignments, coaching_requests, currentCoach,
                 joinCall, payCall, profileCoach>>
  /\ UNCHANGED <<ocrVars, storeVars, formVars, insightVars, panelVars,
                 seedVars, lateVars>>

\* the select of the request is answered; the update of its status is sent
RespondSelect(k) ==
  /\ respondCall[k].pc = "select"
  /\ respondCall' = [respondCall EXCEPT ![k].pc = "update"]
  /\ UNCHANGED <<coach_client_assignments, coaching_requests, currentCoach,
                 joinCall, payCall, profileCoach>>
  /\ UNCHANGED <<ocrVars, storeVars, formVars, insightVars, panelVars,
                 seedVars, lateVars>>

\* the update of the request runs, with no error whether it changed the row
\* or not; a rejection ends here and returns true, an acceptance sends the
\* update of the client's assignments
RespondUpdate(k) ==
  /\ respondCall[k].pc = "update"
  /\ coaching_requests' =
       UpdateRequest(coaching_requests, respondCall[k].id,
                     respondCall[k].status)
  /\ respondCall' =
       IF respondCall[k].status = "accepted"
       THEN [respondCall EXCEPT ![k].pc = "deactivate"]
       ELSE [respondCall EXCEPT ![k] = [NoRespond EXCEPT !.returned = "true"]]
  /\ UNCHANGED <<coach_client_assignments, currentCoach, joinCall, payCall,
                 profileCoach>>
  /\ UNCHANGED <<ocrVars, storeVars, formVars, insightVars, panelVars,
                 seedVars, lateVars>>

\* the update of the client's assignments runs; the insert is sent
RespondDeactivate(k) ==
  /\ respondCall[k].pc = "deactivate"
  /\ coach_client_assignments' = Deactivate(coach_client_assignments, Client)
  /\ respondCall' = [respondCall EXCEPT ![k].pc = "insert"]
  /\ UNCHANGED <<coaching_requests, currentCoach, joinCall, payCall,
                 profileCoach>>
  /\ UNCHANGED <<ocrVars, storeVars, formVars, insightVars, panelVars,
                 seedVars, lateVars>>

\* the insert of the assignment runs; respondToRequest returns true, or
\* false from its catch block when the insert failed
RespondInsert(k) ==
  /\ respondCall[k].pc = "insert"
  /\ \E done \in {InsertAssignment(coach_client_assignments, k, Client, k)} :
       /\ coach_client_assignments' = done.rows
       /\ respondCall' =
            [respondCall EXCEPT
               ![k] = [NoRespond EXCEPT
                         !.returned = IF done.error THEN "false"
                                      ELSE "true"]]
  /\ UNCHANGED <<coaching_requests, currentCoach, joinCall, payCall,
                 profileCoach>>
  /\ UNCHANGED <<ocrVars, storeVars, formVars, insightVars, panelVars,
                 seedVars, lateVars>>

\* cancelRequest(id) from the client's card of a request, which may be
\* older than the table: the update, and the return of true
CancelRequest(id) ==
  /\ id \in DOMAIN coaching_requests
  /\ coaching_requests[id].client_id = Client
  /\ coaching_requests' = UpdateRequest(coaching_requests, id, "cancelled")
  /\ UNCHANGED <<coach_client_assignments, currentCoach, joinCall, payCall,
                 profileCoach, respondCall>>
  /\ UNCHANGED <<ocrVars, storeVars, formVars, insightVars, panelVars,
                 seedVars, lateVars>>

\* .select("id").eq(client_id).eq(coach_id).eq("status", "pending")
\* .maybeSingle(): data is the row when there is exactly one, and null (with
\* an error that createRequest does not read) when there are none or several
ExistingPending(rows, coach) ==
  Cardinality({i \in DOMAIN rows :
                 /\ rows[i].client_id = Client
                 /\ rows[i].coach_id = coach
                 /\ rows[i].status = "pending"}) = 1

\* createRequest({coach_id: k, ...}) in tab t, up to the await of the select
CreateStart(t, k) ==
  /\ createCall[t].pc = "idle"
  /\ Len(coaching_requests) + Cardinality({u \in Tabs :
                                            createCall[u].pc # "idle"})
       < MaxRequests
  /\ createCall' = [createCall EXCEPT ![t] =
                      [pc |-> "select", coach_id |-> k, returned |-> "none"]]
  /\ UNCHANGED <<policies, coach_client_assignments, coachPages>>
  /\ UNCHANGED <<ocrVars, storeVars, formVars, insightVars, panelVars,
                 seedVars, planVars, chatVars>>

\* the select is answered: createRequest returns false when a pending
\* request exists, and sends the insert otherwise
CreateSelect(t) ==
  /\ createCall[t].pc = "select"
  /\ createCall' =
       IF ExistingPending(coaching_requests, createCall[t].coach_id)
       THEN [createCall EXCEPT ![t] = [NoCreate EXCEPT !.returned = "false"]]
       ELSE [createCall EXCEPT ![t].pc = "insert"]
  /\ UNCHANGED <<policies, coach_client_assignments, coachPages>>
  /\ UNCHANGED <<ocrVars, storeVars, formVars, insightVars, panelVars,
                 seedVars, planVars, chatVars>>

\* the insert runs: the client's policy admits it and the table has no
\* constraint besides the primary key; createRequest returns true
CreateInsert(t) ==
  /\ createCall[t].pc = "insert"
  /\ coaching_requests' =
       Append(coaching_requests, NewRequest(createCall[t].coach_id))
  /\ createCall' = [createCall EXCEPT
                      ![t] = [NoCreate EXCEPT !.returned = "true"]]
  /\ UNCHANGED <<policies, coach_client_assignments, currentCoach, joinCall,
                 payCall, profileCoach, respondCall>>
  /\ UNCHANGED <<ocrVars, storeVars, formVars, insightVars, panelVars,
                 seedVars, planVars, chatVars>>

(***************************************************************************)
(* Plan creation: handleSubmit of CreateWorkoutPlan and of CreateDietPlan, *)
(* by coach k1 for the client, from two tabs; the plan-pdfs bucket with    *)
(* its upload policy.  Titles and the structured data are left out.        *)
(***************************************************************************)
PlanCoach == "k1"
PlanTables == {"workout", "diet"}
PlanTypes == {"structured", "pdf"}
NoPath == <<>>
NoUrl == <<>>

NoPlanCall ==
  [pc |-> "idle", table |-> "none", plan_type |-> "none", now |-> 0,
   version |-> 0, pdf_url |-> NoUrl, returned |-> "none"]

PlansOf(table) == IF table = "workout" THEN workout_plans ELSE diet_plans

\* the plans of the coach for the client
PairPlans(rows) ==
  {r \in rows : r.coach_id = PlanCoach /\ r.client_id = Client}

\* .select("version").order("version", {ascending: false}).limit(1), and
\* nextVersion: one more than the greatest version, or 1
NextVersion(rows) ==
  IF PairPlans(rows) = {} THEN 1
  ELSE (CHOOSE v \in {r.version : r \in PairPlans(rows)} :
          \A r \in PairPlans(rows) : r.version <= v) + 1

\* .update({is_active: false}).eq(coach_id).eq(client_id).eq(is_active, true)
DeactivatePlans(rows) ==
  {IF r \in PairPlans(rows) THEN [r EXCEPT !.is_active = FALSE] ELSE r :
     r \in rows}

\* `${Date.now()}.${fileExt}` of a file named *.pdf
PdfName(now) == ToString(now) \o ".pdf"

\* fileName of CreateWorkoutPlan: `${user.id}/${Date.now()}.${fileExt}`
WorkoutFileName(now) == <<PlanCoach, PdfName(now)>>

\* fileName of CreateDietPlan:
\* `${user.id}/${selectedClientId}/diet/${nextVersion}/${Date.now()}.${fileExt}`
DietFileName(version, now) ==
  <<PlanCoach, Client, "diet", ToString(version), PdfName(now)>>

\* getPublicUrl(fileName).publicUrl: the path after the bucket's public URL
getPublicUrl(fileName) == <<"object", "public", "plan-pdfs">> \o fileName

\* what can be cast to uuid
Uuids == {Client} \cup Coaches

\* is_coach_of_client(_coach_id, _client_id)
is_coach_of_client(coach, client) ==
  \E a \in coach_client_assignments :
    a.coach_id = coach /\ a.client_id = client /\ a.is_active

\* "Coaches can upload plan PDFs for their clients", name being split at
\* "/": the first part is the uploader, the second casts to the uuid of a
\* client of the uploader (a failing cast fails the statement)
UploadAdmitted(name, uid) ==
  /\ Len(name) >= 2
  /\ name[1] = uid
  /\ name[2] \in Uuids
  /\ is_coach_of_client(uid, name[2])

\* handleSubmit of the page of table, up to its first await
PlanStart(t, table, type) ==
  /\ planCall[t].pc = "idle"
  /\ planStarted < MaxPlans
  /\ planStarted' = planStarted + 1
  /\ planCall' =
       [planCall EXCEPT ![t] =
          [pc |-> IF table = "workout" /\ type = "pdf" THEN "upload"
                  ELSE "version",
           table |-> table, plan_type |-> type, now |-> planStarted + 1,
           version |-> 0, pdf_url |-> NoUrl, returned |-> "none"]]
  /\ UNCHANGED <<workout_plans, diet_plans, objects>>
  /\ UNCHANGED <<ocrVars, storeVars, formVars, insightVars, panelVars,
                 seedVars, coachVars, requestVars, chatVars>>

\* the select of the versions is answered; the diet page then uploads the
\* PDF if there is one, else the update is sent
PlanVersion(t) ==
  /\ planCall[t].pc = "version"
  /\ planCall' =
       [planCall EXCEPT
          ![t].version = NextVersion(PlansOf(planCall[t].table)),
          ![t].pc = IF planCall[t].table = "diet"
                       /\ planCall[t].plan_type = "pdf"
                    THEN "upload" ELSE "deactivate"]
  /\ UNCHANGED <<workout_plans, diet_plans, objects, planStarted>>
  /\ UNCHANGED <<ocrVars, storeVars, formVars, insightVars, panelVars,
                 seedVars, coachVars, requestVars, chatVars>>

\* fileName of the call of tab t
UploadName(t) ==
  IF planCall[t].table = "workout"
  THEN WorkoutFileName(planCall[t].now)
  ELSE DietFileName(planCall[t].version, planCall[t].now)

\* the upload is answered: the object is stored if the policy admits its
\* name, else handleSubmit throws uploadError and ends
PlanUpload(t) ==
  /\ planCall[t].pc = "upload"
  /\ \E name \in {UploadName(t)} :
       IF UploadAdmitted(name, PlanCoach)
       THEN /\ objects' = objects \cup {name}
            /\ planCall' =
                 [planCall EXCEPT
                    ![t].pdf_url = IF planCall[t].table = "workout"
                                   THEN getPublicUrl(name) ELSE name,
                    ![t].pc = IF planCall[t].table = "workout"
                              THEN "version" ELSE "deactivate"]
       ELSE /\ objects' = objects
            /\ planCall' = [planCall EXCEPT ![t].pc = "idle",
                                            ![t].returned = "failed"]
  /\ UNCHANGED <<workout_plans, diet_plans, planStarted>>
  /\ UNCHANGED <<ocrVars, storeVars, formVars, insightVars, panelVars,
                 seedVars, coachVars, requestVars, chatVars>>

\* the update that deactivates the active plan runs; the insert is sent
PlanDeactivate(t) ==
  /\ planCall[t].pc = "deactivate"
  /\ workout_plans' = IF planCall[t].table = "workout"
                      THEN DeactivatePlans(workout_plans) ELSE workout_plans
  /\ diet_plans' = IF planCall[t].table = "diet"
                   THEN DeactivatePlans(diet_plans) ELSE diet_plans
  /\ planCall' = [planCall EXCEPT ![t].pc = "insert"]
  /\ UNCHANGED <<objects, planStarted>>
  /\ UNCHANGED <<ocrVars, storeVars, formVars, insightVars, panelVars,
                 seedVars, coachVars, requestVars, chatVars>>

\* the row handleSubmit inserts; its id is the next of the table
PlanRow(t, rows) ==
  [id |-> Cardinality(rows) + 1, coach_id |-> PlanCoach,
   client_id |-> Client, plan_type |-> planCall[t].plan_type,
   version |-> planCall[t].version, is_active |-> TRUE,
   pdf_url |-> planCall[t].pdf_url]

\* the insert is answered: with the row stored, or with insertError (the
\* request did not reach the database, or the database refused it), which
\* handleSubmit throws
PlanInsert(t, stored) ==
  /\ planCall[t].pc = "insert"
  /\ workout_plans' =
       IF stored /\ planCall[t].table = "workout"
       THEN workout_plans \cup {PlanRow(t, workout_plans)}
       ELSE workout_plans
  /\ diet_plans' =
       IF stored /\ planCall[t].table = "diet"
       THEN diet_plans \cup {PlanRow(t, diet_plans)}
       ELSE diet_plans
  /\ planCall' = [planCall EXCEPT
                    ![t].pc = "idle",
                    ![t].returned = IF stored THEN "created" ELSE "failed"]
  /\ UNCHANGED <<objects, planStarted>>
  /\ UNCHANGED <<ocrVars, storeVars, formVars, insightVars, panelVars,
                 seedVars, coachVars, requestVars, chatVars>>

(***************************************************************************)
(* Chat: useChat of the client and of the coach k1, who is the client's    *)
(* coach.  A message is its id, the place of its row in chat_messages,     *)
(* which is also its place in the order of created_at.  The change feed    *)
(* of a side holds the inserts made since the side set its conversation    *)
(* and not yet handed to its handler; it may hand an insert over more than *)
(* once.  is_read and markAsRead are left out.                             *)
(***************************************************************************)
ChatCoach == "k1"
ChatSides == {Client, ChatCoach}
NoConversation == 0

NoChatCall == [pc |-> "closed", data |-> <<>>]
NoRefetch == [pc |-> "idle", data |-> <<>>]

\* the conversation of the pair, a row of chat_conversations:
\* UNIQUE (client_id, coach_id)
PairConversation == [id |-> 1, client_id |-> Client, coach_id |-> ChatCoach]

\* .select("*").eq("conversation_id", id).order("created_at"): every
\* message there is belongs to the conversation of the pair
MessagesOf(rows) == [i \in 1..Len(rows) |-> i]

\* prev.some((m) => m.id === newMessage.id)
some(prev, id) == \E i \in 1..Len(prev) : prev[i] = id

\* the insert handler without its check for duplicates
OnInsertAlways(prev, id) == Append(prev, id)

\* the updater the insert handler gives setMessages
OnInsert(prev, id) == IF some(prev, id) THEN prev ELSE Append(prev, id)

\* the policies for an insert of the pair's conversation by uid
MayCreateConversation(uid) ==
  /\ uid \in {Client, ChatCoach}
  /\ \E a \in coach_client_assignments :
       /\ a.coach_id = ChatCoach
       /\ a.client_id = Client
       /\ a.is_active

\* the effect runs init(): setIsLoading(true), and getOrCreateConversation
\* up to the await of its select
ChatOpen(s) ==
  /\ chatCall[s].pc = "closed"
  /\ chatCall' = [chatCall EXCEPT ![s].pc = "select"]
  /\ UNCHANGED <<chat_conversations, chat_messages, conversation, messages,
                 feed, refetchCall, refetches>>
  /\ UNCHANGED <<ocrVars, storeVars, formVars, insightVars, panelVars,
                 seedVars, coachVars, requestVars, planVars>>

\* the select is answered: with the conversation, which init sets before it
\* sends the select of the messages, or with none, and the insert is sent
ChatSelect(s) ==
  /\ chatCall[s].pc = "select"
  /\ IF PairConversation \in chat_conversations
     THEN /\ conversation' =
               [conversation EXCEPT ![s] = PairConversation.id]
          /\ chatCall' = [chatCall EXCEPT ![s].pc = "query"]
     ELSE /\ conversation' = conversation
          /\ chatCall' = [chatCall EXCEPT ![s].pc = "insert"]
  /\ UNCHANGED <<chat_conversations, chat_messages, messages, feed,
                 refetchCall, refetches>>
  /\ UNCHANGED <<ocrVars, storeVars, formVars, insightVars, panelVars,
                 seedVars, coachVars, requestVars, planVars>>

\* the insert is answered: with the new conversation, or with the error of
\* the policy or of the unique constraint, and getOrCreateConversation
\* returns null: init sets no conversation and ends
ChatInsert(s) ==
  /\ chatCall[s].pc = "insert"
  /\ IF MayCreateConversation(s) /\ PairConversation \notin chat_conversations
     THEN /\ chat_conversations' = chat_conversations \cup {PairConversation}
          /\ conversation' =
               [conversation EXCEPT ![s] = PairConversation.id]
          /\ chatCall' = [chatCall EXCEPT ![s].pc = "query"]
     ELSE /\ chat_conversations' = chat_conversations
          /\ conversation' = conversation
          /\ chatCall' = [chatCall EXCEPT ![s].pc = "ended"]
  /\ UNCHANGED <<chat_messages, messages, feed, refetchCall, refetches>>
  /\ UNCHANGED <<ocrVars, storeVars, formVars, insightVars, panelVars,
                 seedVars, coachVars, requestVars, planVars>>

\* the database runs the select of fetchMessages
ChatFetchQuery(s) ==
  /\ chatCall[s].pc = "query"
  /\ chatCall' = [chatCall EXCEPT ![s] =
                    [pc |-> "answer", data |-> MessagesOf(chat_messages)]]
  /\ UNCHANGED <<chat_conversations, chat_messages, conversation, messages,
                 feed, refetchCall, refetches>>
  /\ UNCHANGED <<ocrVars, storeVars, formVars, insightVars, panelVars,
                 seedVars, coachVars, requestVars, planVars>>

\* the answer reaches init: setMessages(msgs), setIsLoading(false)
ChatFetchDone(s) ==
  /\ chatCall[s].pc = "answer"
  /\ messages' = [messages EXCEPT ![s] = chatCall[s].data]
  /\ chatCall' = [chatCall EXCEPT ![s] = [pc |-> "ended", data |-> <<>>]]
  /\ UNCHANGED <<chat_conversations, chat_messages, conversation, feed,
                 refetchCall, refetches>>
  /\ UNCHANGED <<ocrVars, storeVars, formVars, insightVars, panelVars,
                 seedVars, coachVars, requestVars, planVars>>

\* sendMessage(text) by a side that has its conversation: the insert, which
\* the feed of every side that has set the conversation takes up
SendMessage(s) ==
  /\ conversation[s] # NoConversation
  /\ Len(chat_messages) < MaxMessages
  /\ chat_messages' = Append(chat_messages, [sender_id |-> s])
  /\ feed' = [u \in ChatSides |->
                IF conversation[u] # NoConversation
                THEN feed[u] \cup {Len(chat_messages) + 1}
                ELSE feed[u]]
  /\ UNCHANGED <<chat_conversations, conversation, messages, chatCall,
                 refetchCall, refetches>>
  /\ UNCHANGED <<ocrVars, storeVars, formVars, insightVars, panelVars,
                 seedVars, coachVars, requestVars, planVars>>

\* the feed hands the insert of message id to the handler of side s, for
\* the last time or not
Notify(s, id, again) ==
  /\ id \in feed[s]
  /\ messages' = [messages EXCEPT ![s] = OnInsert(messages[s], id)]
  /\ feed' = IF again THEN feed ELSE [feed EXCEPT ![s] = feed[s] \ {id}]
  /\ UNCHANGED <<chat_conversations, chat_messages, conversation, chatCall,
                 refetchCall, refetches>>
  /\ UNCHANGED <<ocrVars, storeVars, formVars, insightVars, panelVars,
                 seedVars, coachVars, requestVars, planVars>>

\* refetch(): fetchMessages is called and the database runs its select
RefetchQuery(s) ==
  /\ conversation[s] # NoConversation
  /\ refetchCall[s].pc = "idle"
  /\ refetches < MaxRefetches
  /\ refetches' = refetches + 1
  /\ refetchCall' = [refetchCall EXCEPT ![s] =
                       [pc |-> "answer",
                        data |-> MessagesOf(chat_messages)]]
  /\ UNCHANGED <<chat_conversations, chat_messages, conversation, messages,
                 chatCall, feed>>
  /\ UNCHANGED <<ocrVars, storeVars, formVars, insightVars, panelVars,
                 seedVars, coachVars, requestVars, planVars>>

\* the answer reaches refetch: .then(setMessages)
RefetchDone(s) ==
  /\ refetchCall[s].pc = "answer"
  /\ messages' = [messages EXCEPT ![s] = refetchCall[s].data]
  /\ refetchCall' = [refetchCall EXCEPT ![s] = NoRefetch]
  /\ UNCHANGED <<chat_conversations, chat_messages, conversation, chatCall,
                 feed, refetches>>
  /\ UNCHANGED <<ocrVars, storeVars, formVars, insightVars, panelVars,
                 seedVars, coachVars, requestVars, planVars>>

(***************************************************************************)
(* The specifications.                                                     *)
(***************************************************************************)
\* the page of FormSession is open with u1 signed in and has loaded the
\* (empty) record list; the page of the other session is not open yet
Init ==
  /\ ocrFile = CorruptFile
  /\ ocrPc = "idle"
  /\ ocrOut = Pending
  /\ inbody_records = {}
  /\ nextId = 1
  /\ dbTime = 0
  /\ mounted = [s \in Sessions |-> s = FormSession]
  /\ user = [s \in Sessions |-> IF s = FormSession THEN "u1" ELSE NoUser]
  /\ records = [s \in Sessions |-> <<>>]
  /\ isLoading = [s \in Sessions |-> s # FormSession]
  /\ isSaving = [s \in Sessions |-> FALSE]
  /\ saveCall = [s \in Sessions |-> NoSave]
  /\ fetchCall = [s \in Sessions |-> [c \in FetchCallers |-> Idle]]
  /\ toast = [s \in Sessions |-> "none"]
  /\ formData = EmptyForm
  /\ errors = NoErrors
  /\ isProcessingOCR = FALSE
  /\ ocrStatus = "idle"
  /\ ocrResult = NoResult
  /\ uploads = [n \in 1..MaxUploads |-> NoUpload]
  /\ uploadsStarted = 0
  /\ edits = 0
  /\ clock = 0
  /\ rangeInsights = NotCalled
  /\ monthlyInsights = NotCalled
  /\ clientId = NoUser
  /\ inbodyRecords = <<>>
  /\ inbodyInsights = NoData(30)
  /\ insights = NoInsightData
  /\ panelLoading = TRUE
  /\ panelCall = [n \in 1..MaxLoads |-> NoPanelCall]
  /\ seedDb = NoSeedDb
  /\ seedPc = 0
  /\ seedRuns = 0
  /\ coach_client_assignments = {}
  /\ coaching_requests = PendingToEach
  /\ currentCoach = NoCoach
  /\ profileCoach = NoCoach
  /\ joinCall = NoJoin
  /\ payCall = NoJoin
  /\ respondCall = [k \in Coaches |-> NoRespond]
  /\ policies = "open"
  /\ createCall = [t \in Tabs |-> NoCreate]
  /\ workout_plans = {}
  /\ diet_plans = {}
  /\ objects = {}
  /\ planCall = [t \in Tabs |-> NoPlanCall]
  /\ planStarted = 0
  /\ chat_conversations = {}
  /\ chat_messages = <<>>
  /\ conversation = [s \in ChatSides |-> NoConversation]
  /\ messages = [s \in ChatSides |-> <<>>]
  /\ chatCall = [s \in ChatSides |-> NoChatCall]
  /\ feed = [s \in ChatSides |-> {}]
  /\ refetchCall = [s \in ChatSides |-> NoRefetch]
  /\ refetches = 0

\* SpecOcr: extractInBodyData on every file; nothing else runs
InitOcr ==
  /\ ocrFile \in {ReadableFile(t) : t \in Texts} \cup {CorruptFile}
  /\ ocrPc = "idle"
  /\ ocrOut = Pending
  /\ inbody_records = {}
  /\ nextId = 1
  /\ dbTime = 0
  /\ mounted = [s \in Sessions |-> FALSE]
  /\ user = [s \in Sessions |-> NoUser]
  /\ records = [s \in Sessions |-> <<>>]
  /\ isLoading = [s \in Sessions |-> TRUE]
  /\ isSaving = [s \in Sessions |-> FALSE]
  /\ saveCall = [s \in Sessions |-> NoSave]
  /\ fetchCall = [s \in Sessions |-> [c \in FetchCallers |-> Idle]]
  /\ toast = [s \in Sessions |-> "none"]
  /\ formData = EmptyForm
  /\ errors = NoErrors
  /\ isProcessingOCR = FALSE
  /\ ocrStatus = "idle"
  /\ ocrResult = NoResult
  /\ uploads = [n \in 1..MaxUploads |-> NoUpload]
  /\ uploadsStarted = 0
  /\ edits = 0
  /\ clock = 0
  /\ rangeInsights = NotCalled
  /\ monthlyInsights = NotCalled
  /\ clientId = NoUser
  /\ inbodyRecords = <<>>
  /\ inbodyInsights = NoData(30)
  /\ insights = NoInsightData
  /\ panelLoading = TRUE
  /\ panelCall = [n \in 1..MaxLoads |-> NoPanelCall]
  /\ seedDb = NoSeedDb
  /\ seedPc = 0
  /\ seedRuns = 0
  /\ coach_client_assignments = {}
  /\ coaching_requests = PendingToEach
  /\ currentCoach = NoCoach
  /\ profileCoach = NoCoach
  /\ joinCall = NoJoin
  /\ payCall = NoJoin
  /\ respondCall = [k \in Coaches |-> NoRespond]
  /\ policies = "open"
  /\ createCall = [t \in Tabs |-> NoCreate]
  /\ workout_plans = {}
  /\ diet_plans = {}
  /\ objects = {}
  /\ planCall = [t \in Tabs |-> NoPlanCall]
  /\ planStarted = 0
  /\ chat_conversations = {}
  /\ chat_messages = <<>>
  /\ conversation = [s \in ChatSides |-> NoConversation]
  /\ messages = [s \in ChatSides |-> <<>>]
  /\ chatCall = [s \in ChatSides |-> NoChatCall]
  /\ feed = [s \in ChatSides |-> {}]
  /\ refetchCall = [s \in ChatSides |-> NoRefetch]
  /\ refetches = 0

OcrExtractCall == OcrCall /\ UNCHANGED <<storeVars, formVars, restVars>>
OcrExtractSettle == OcrSettle /\ UNCHANGED <<storeVars, formVars, restVars>>

NextOcr == OcrExtractCall \/ OcrExtractSettle

SpecOcr == InitOcr /\ [][NextOcr]_vars

\* SpecStore: the pages of both sessions, the second one opening with any
\* user or none, saving validated records
TabMount(s, u) == Mount(s, u) /\ UNCHANGED <<ocrVars, formVars, restVars>>
TabFetchQuery(s, c) == FetchQuery(s, c) /\ UNCHANGED <<ocrVars, formVars, restVars>>
TabMountFetchDone(s) == MountFetchDone(s) /\ UNCHANGED <<ocrVars, formVars, restVars>>
TabSaveStart(s, rec) ==
  /\ Upserts < MaxSaves
  /\ SaveStart(s, rec)
  /\ UNCHANGED <<ocrVars, formVars, restVars>>
TabSaveUpsertOk(s) == SaveUpsertOk(s) /\ UNCHANGED <<ocrVars, formVars, restVars>>
TabSaveUpsertFail(s) == SaveUpsertFail(s) /\ UNCHANGED <<ocrVars, formVars, restVars>>
TabSaveRefetchDone(s) == SaveRefetchDone(s) /\ UNCHANGED <<ocrVars, formVars, restVars>>

NextStore ==
  \E s \in Sessions :
    \/ \E u \in Users \cup {NoUser} : TabMount(s, u)
    \/ \E c \in FetchCallers : TabFetchQuery(s, c)
    \/ TabMountFetchDone(s)
    \/ \E rec \in Inserts : TabSaveStart(s, rec)
    \/ TabSaveUpsertOk(s)
    \/ TabSaveUpsertFail(s)
    \/ TabSaveRefetchDone(s)

SpecStore == Init /\ [][NextStore]_vars

\* SpecSaves: the pages of both sessions are open and have loaded the
\* (empty) record list, tabA with u1 signed in and tabB with either user;
\* they save validated records
InitSaves ==
  /\ ocrFile = CorruptFile
  /\ ocrPc = "idle"
  /\ ocrOut = Pending
  /\ inbody_records = {}
  /\ nextId = 1
  /\ dbTime = 0
  /\ mounted = [s \in Sessions |-> TRUE]
  /\ user \in {[s \in Sessions |-> IF s = FormSession THEN "u1" ELSE u] :
                u \in Users}
  /\ records = [s \in Sessions |-> <<>>]
  /\ isLoading = [s \in Sessions |-> FALSE]
  /\ isSaving = [s \in Sessions |-> FALSE]
  /\ saveCall = [s \in Sessions |-> NoSave]
  /\ fetchCall = [s \in Sessions |-> [c \in FetchCallers |-> Idle]]
  /\ toast = [s \in Sessions |-> "none"]
  /\ formData = EmptyForm
  /\ errors = NoErrors
  /\ isProcessingOCR = FALSE
  /\ ocrStatus = "idle"
  /\ ocrResult = NoResult
  /\ uploads = [n \in 1..MaxUploads |-> NoUpload]
  /\ uploadsStarted = 0
  /\ edits = 0
  /\ clock = 0
  /\ rangeInsights = NotCalled
  /\ monthlyInsights = NotCalled
  /\ clientId = NoUser
  /\ inbodyRecords = <<>>
  /\ inbodyInsights = NoData(30)
  /\ insights = NoInsightData
  /\ panelLoading = TRUE
  /\ panelCall = [n \in 1..MaxLoads |-> NoPanelCall]
  /\ seedDb = NoSeedDb
  /\ seedPc = 0
  /\ seedRuns = 0
  /\ coach_client_assignments = {}
  /\ coaching_requests = PendingToEach
  /\ currentCoach = NoCoach
  /\ profileCoach = NoCoach
  /\ joinCall = NoJoin
  /\ payCall = NoJoin
  /\ respondCall = [k \in Coaches |-> NoRespond]
  /\ policies = "open"
  /\ createCall = [t \in Tabs |-> NoCreate]
  /\ workout_plans = {}
  /\ diet_plans = {}
  /\ objects = {}
  /\ planCall = [t \in Tabs |-> NoPlanCall]
  /\ planStarted = 0
  /\ chat_conversations = {}
  /\ chat_messages = <<>>
  /\ conversation = [s \in ChatSides |-> NoConversation]
  /\ messages = [s \in ChatSides |-> <<>>]
  /\ chatCall = [s \in ChatSides |-> NoChatCall]
  /\ feed = [s \in ChatSides |-> {}]
  /\ refetchCall = [s \in ChatSides |-> NoRefetch]
  /\ refetches = 0

NextSaves ==
  \E s \in Sessions :
    \/ TabFetchQuery(s, "save")
    \/ \E rec \in Inserts : TabSaveStart(s, rec)
    \/ TabSaveUpsertOk(s)
    \/ TabSaveUpsertFail(s)
    \/ TabSaveRefetchDone(s)

SpecSaves == InitSaves /\ [][NextSaves]_vars

\* SpecForm: the form of FormSession, and the saves it makes
FormFetchQuery == TabFetchQuery(FormSession, "save")
FormSaveUpsertOk == TabSaveUpsertOk(FormSession)

NextForm ==
  \/ FormFetchQuery
  \/ \E f \in NumberFields : \E v \in TypedValues(f) : InputNumber(f, v)
  \/ \E d \in Dates : InputDate(d)
  \/ SubmitInvalid
  \/ SubmitValid
  \/ FormSaveUpsertOk
  \/ SubmitFailed
  \/ SubmitSaved
  \/ \E file \in Uploads : HandleFileInput(file)
  \/ \E file \in Uploads : \E accepted \in BOOLEAN : HandleDrop(file, accepted)
  \/ \E n \in 1..MaxUploads : UploadDone(n)

SpecForm == Init /\ [][NextForm]_vars

\* SpecSubmit: the same page with the form filled in, at and around the
\* limits of validateForm ('' is what a number input holds for no number)
SubmittedWeights ==
  { <<>>, <<"1", "9", ".", "9", "9">>, <<"2", "0">>, <<"7", "5">>,
    <<"3", "0", "0">>, <<"3", "0", "0", ".", "0", "1">> }
SubmittedMuscles == { <<>>, <<"0">>, <<"-", "1">>, <<"3", "4">> }
SubmittedFats ==
  { <<>>, <<"2", ".", "9">>, <<"3">>, <<"1", "8">>, <<"6", "0">>,
    <<"6", "0", ".", "1">> }

InitSubmit ==
  /\ ocrFile = CorruptFile
  /\ ocrPc = "idle"
  /\ ocrOut = Pending
  /\ inbody_records = {}
  /\ nextId = 1
  /\ dbTime = 0
  /\ mounted = [s \in Sessions |-> s = FormSession]
  /\ user = [s \in Sessions |-> IF s = FormSession THEN "u1" ELSE NoUser]
  /\ records = [s \in Sessions |-> <<>>]
  /\ isLoading = [s \in Sessions |-> s # FormSession]
  /\ isSaving = [s \in Sessions |-> FALSE]
  /\ saveCall = [s \in Sessions |-> NoSave]
  /\ fetchCall = [s \in Sessions |-> [c \in FetchCallers |-> Idle]]
  /\ toast = [s \in Sessions |-> "none"]
  /\ formData \in [date : Dates, weight_kg : SubmittedWeights,
                    skeletal_muscle_kg : SubmittedMuscles,
                    body_fat_percentage : SubmittedFats]
  /\ errors = NoErrors
  /\ isProcessingOCR = FALSE
  /\ ocrStatus = "idle"
  /\ ocrResult = NoResult
  /\ uploads = [n \in 1..MaxUploads |-> NoUpload]
  /\ uploadsStarted = 0
  /\ edits = 0
  /\ clock = 0
  /\ rangeInsights = NotCalled
  /\ monthlyInsights = NotCalled
  /\ clientId = NoUser
  /\ inbodyRecords = <<>>
  /\ inbodyInsights = NoData(30)
  /\ insights = NoInsightData
  /\ panelLoading = TRUE
  /\ panelCall = [n \in 1..MaxLoads |-> NoPanelCall]
  /\ seedDb = NoSeedDb
  /\ seedPc = 0
  /\ seedRuns = 0
  /\ coach_client_assignments = {}
  /\ coaching_requests = PendingToEach
  /\ currentCoach = NoCoach
  /\ profileCoach = NoCoach
  /\ joinCall = NoJoin
  /\ payCall = NoJoin
  /\ respondCall = [k \in Coaches |-> NoRespond]
  /\ policies = "open"
  /\ createCall = [t \in Tabs |-> NoCreate]
  /\ workout_plans = {}
  /\ diet_plans = {}
  /\ objects = {}
  /\ planCall = [t \in Tabs |-> NoPlanCall]
  /\ planStarted = 0
  /\ chat_conversations = {}
  /\ chat_messages = <<>>
  /\ conversation = [s \in ChatSides |-> NoConversation]
  /\ messages = [s \in ChatSides |-> <<>>]
  /\ chatCall = [s \in ChatSides |-> NoChatCall]
  /\ feed = [s \in ChatSides |-> {}]
  /\ refetchCall = [s \in ChatSides |-> NoRefetch]
  /\ refetches = 0

NextSubmit ==
  \/ SubmitInvalid
  \/ SubmitValid
  \/ FormSaveUpsertOk
  \/ FormFetchQuery
  \/ SubmitFailed
  \/ SubmitSaved

SpecSubmit == InitSubmit /\ [][NextSubmit]_vars

\* SpecInsights: the InBody page of u1 has loaded u1's records, which are
\* any measurements on up to MaxRecords of the days below, and calls
\* getInsights and getMonthlyInsights
InsightDates == {61, 75, 93, 94}

\* weight, skeletal muscle and body fat of one measurement
Measurements ==
  { [weight_kg |-> 8200, skeletal_muscle_kg |-> 3400,
     body_fat_percentage |-> 2000],
    [weight_kg |-> 8000, skeletal_muscle_kg |-> 3440,
     body_fat_percentage |-> 1950],
    [weight_kg |-> 8025, skeletal_muscle_kg |-> 3460,
     body_fat_percentage |-> 2025],
    [weight_kg |-> 8026, skeletal_muscle_kg |-> 3340,
     body_fat_percentage |-> 2050],
    [weight_kg |-> 7898, skeletal_muscle_kg |-> 3450,
     body_fat_percentage |-> 1975] }

\* 2024-04-04 12:00, 2024-04-14 00:00 and 2024-04-14 12:00
Clocks ==
  { getTime(95) + SecPerDay \div 2, getTime(105),
    getTime(105) + SecPerDay \div 2 }

\* the tables uid can have saved: one row a day, ids in the order of the
\* days, the first of them after id base
RowSets(uid, base) ==
  UNION
    { { { NewRow(uid,
                 [date |-> d, weight_kg |-> m[d].weight_kg,
                  skeletal_muscle_kg |-> m[d].skeletal_muscle_kg,
                  body_fat_percentage |-> m[d].body_fat_percentage],
                 base + Cardinality({e \in days : e <= d}),
                 base + Cardinality({e \in days : e <= d})) : d \in days }
        : m \in [days -> Measurements] }
      : days \in {ds \in SUBSET InsightDates : Cardinality(ds) <= MaxRecords} }

InitInsights ==
  /\ ocrFile = CorruptFile
  /\ ocrPc = "idle"
  /\ ocrOut = Pending
  /\ inbody_records \in RowSets("u1", 0)
  /\ nextId = Cardinality(inbody_records) + 1
  /\ dbTime = Cardinality(inbody_records)
  /\ mounted = [s \in Sessions |-> s = FormSession]
  /\ user = [s \in Sessions |-> IF s = FormSession THEN "u1" ELSE NoUser]
  /\ records = [s \in Sessions |->
                  IF s = FormSession THEN SelectByUser(inbody_records, "u1")
                  ELSE <<>>]
  /\ isLoading = [s \in Sessions |-> s # FormSession]
  /\ isSaving = [s \in Sessions |-> FALSE]
  /\ saveCall = [s \in Sessions |-> NoSave]
  /\ fetchCall = [s \in Sessions |-> [c \in FetchCallers |-> Idle]]
  /\ toast = [s \in Sessions |-> "none"]
  /\ formData = EmptyForm
  /\ errors = NoErrors
  /\ isProcessingOCR = FALSE
  /\ ocrStatus = "idle"
  /\ ocrResult = NoResult
  /\ uploads = [n \in 1..MaxUploads |-> NoUpload]
  /\ uploadsStarted = 0
  /\ edits = 0
  /\ clock \in Clocks
  /\ rangeInsights = NotCalled
  /\ monthlyInsights = NotCalled
  /\ clientId = NoUser
  /\ inbodyRecords = <<>>
  /\ inbodyInsights = NoData(30)
  /\ insights = NoInsightData
  /\ panelLoading = TRUE
  /\ panelCall = [n \in 1..MaxLoads |-> NoPanelCall]
  /\ seedDb = NoSeedDb
  /\ seedPc = 0
  /\ seedRuns = 0
  /\ coach_client_assignments = {}
  /\ coaching_requests = PendingToEach
  /\ currentCoach = NoCoach
  /\ profileCoach = NoCoach
  /\ joinCall = NoJoin
  /\ payCall = NoJoin
  /\ respondCall = [k \in Coaches |-> NoRespond]
  /\ policies = "open"
  /\ createCall = [t \in Tabs |-> NoCreate]
  /\ workout_plans = {}
  /\ diet_plans = {}
  /\ objects = {}
  /\ planCall = [t \in Tabs |-> NoPlanCall]
  /\ planStarted = 0
  /\ chat_conversations = {}
  /\ chat_messages = <<>>
  /\ conversation = [s \in ChatSides |-> NoConversation]
  /\ messages = [s \in ChatSides |-> <<>>]
  /\ chatCall = [s \in ChatSides |-> NoChatCall]
  /\ feed = [s \in ChatSides |-> {}]
  /\ refetchCall = [s \in ChatSides |-> NoRefetch]
  /\ refetches = 0

NextInsights == CallGetInsights \/ CallGetMonthlyInsights

SpecInsights == InitInsights /\ [][NextInsights]_vars

\* SpecPanel: a coach's panel over the records of two clients: u1 with any
\* of the tables above, u2 with no record or one of 2024-04-03
OtherRows ==
  { {},
    { NewRow("u2",
             [date |-> 94, weight_kg |-> 8200, skeletal_muscle_kg |-> 3400,
              body_fat_percentage |-> 2000], MaxRecords + 1,
             MaxRecords + 1) } }

InitPanel ==
  /\ ocrFile = CorruptFile
  /\ ocrPc = "idle"
  /\ ocrOut = Pending
  /\ inbody_records \in
       {mine \cup other : mine \in RowSets("u1", 0), other \in OtherRows}
  /\ nextId = MaxRecords + 2
  /\ dbTime = MaxRecords + 1
  /\ mounted = [s \in Sessions |-> FALSE]
  /\ user = [s \in Sessions |-> NoUser]
  /\ records = [s \in Sessions |-> <<>>]
  /\ isLoading = [s \in Sessions |-> TRUE]
  /\ isSaving = [s \in Sessions |-> FALSE]
  /\ saveCall = [s \in Sessions |-> NoSave]
  /\ fetchCall = [s \in Sessions |-> [c \in FetchCallers |-> Idle]]
  /\ toast = [s \in Sessions |-> "none"]
  /\ formData = EmptyForm
  /\ errors = NoErrors
  /\ isProcessingOCR = FALSE
  /\ ocrStatus = "idle"
  /\ ocrResult = NoResult
  /\ uploads = [n \in 1..MaxUploads |-> NoUpload]
  /\ uploadsStarted = 0
  /\ edits = 0
  /\ clock \in Clocks
  /\ rangeInsights = NotCalled
  /\ monthlyInsights = NotCalled
  /\ clientId = NoUser
  /\ inbodyRecords = <<>>
  /\ inbodyInsights = NoData(30)
  /\ insights = NoInsightData
  /\ panelLoading = TRUE
  /\ panelCall = [n \in 1..MaxLoads |-> NoPanelCall]
  /\ seedDb = NoSeedDb
  /\ seedPc = 0
  /\ seedRuns = 0
  /\ coach_client_assignments = {}
  /\ coaching_requests = PendingToEach
  /\ currentCoach = NoCoach
  /\ profileCoach = NoCoach
  /\ joinCall = NoJoin
  /\ payCall = NoJoin
  /\ respondCall = [k \in Coaches |-> NoRespond]
  /\ policies = "open"
  /\ createCall = [t \in Tabs |-> NoCreate]
  /\ workout_plans = {}
  /\ diet_plans = {}
  /\ objects = {}
  /\ planCall = [t \in Tabs |-> NoPlanCall]
  /\ planStarted = 0
  /\ chat_conversations = {}
  /\ chat_messages = <<>>
  /\ conversation = [s \in ChatSides |-> NoConversation]
  /\ messages = [s \in ChatSides |-> <<>>]
  /\ chatCall = [s \in ChatSides |-> NoChatCall]
  /\ feed = [s \in ChatSides |-> {}]
  /\ refetchCall = [s \in ChatSides |-> NoRefetch]
  /\ refetches = 0

NextPanel ==
  \/ \E c \in Users : PanelShow(c)
  \/ \E n \in 1..MaxLoads : PanelQuery(n)
  \/ \E n \in 1..MaxLoads : PanelDone(n)

SpecPanel == InitPanel /\ [][NextPanel]_vars

\* SpecSeed: the seed script is run, and run again when it has ended, on a
\* database in which any of its three users may have signed up before
RECURSIVE SignupAll(_, _)
SignupAll(db, people) ==
  IF people = {} THEN db
  ELSE LET who == CHOOSE w \in people : TRUE
       IN  SignupAll(Signup(db, who), people \ {who})

SeedStarts == {SignupAll(NoSeedDb, people) : people \in SUBSET SeedPeople}

InitSeed ==
  /\ ocrFile = CorruptFile
  /\ ocrPc = "idle"
  /\ ocrOut = Pending
  /\ inbody_records = {}
  /\ nextId = 1
  /\ dbTime = 0
  /\ mounted = [s \in Sessions |-> FALSE]
  /\ user = [s \in Sessions |-> NoUser]
  /\ records = [s \in Sessions |-> <<>>]
  /\ isLoading = [s \in Sessions |-> TRUE]
  /\ isSaving = [s \in Sessions |-> FALSE]
  /\ saveCall = [s \in Sessions |-> NoSave]
  /\ fetchCall = [s \in Sessions |-> [c \in FetchCallers |-> Idle]]
  /\ toast = [s \in Sessions |-> "none"]
  /\ formData = EmptyForm
  /\ errors = NoErrors
  /\ isProcessingOCR = FALSE
  /\ ocrStatus = "idle"
  /\ ocrResult = NoResult
  /\ uploads = [n \in 1..MaxUploads |-> NoUpload]
  /\ uploadsStarted = 0
  /\ edits = 0
  /\ clock = 0
  /\ rangeInsights = NotCalled
  /\ monthlyInsights = NotCalled
  /\ clientId = NoUser
  /\ inbodyRecords = <<>>
  /\ inbodyInsights = NoData(30)
  /\ insights = NoInsightData
  /\ panelLoading = TRUE
  /\ panelCall = [n \in 1..MaxLoads |-> NoPanelCall]
  /\ seedDb \in SeedStarts
  /\ seedPc = 0
  /\ seedRuns = 0
  /\ coach_client_assignments = {}
  /\ coaching_requests = PendingToEach
  /\ currentCoach = NoCoach
  /\ profileCoach = NoCoach
  /\ joinCall = NoJoin
  /\ payCall = NoJoin
  /\ respondCall = [k \in Coaches |-> NoRespond]
  /\ policies = "open"
  /\ createCall = [t \in Tabs |-> NoCreate]
  /\ workout_plans = {}
  /\ diet_plans = {}
  /\ objects = {}
  /\ planCall = [t \in Tabs |-> NoPlanCall]
  /\ planStarted = 0
  /\ chat_conversations = {}
  /\ chat_messages = <<>>
  /\ conversation = [s \in ChatSides |-> NoConversation]
  /\ messages = [s \in ChatSides |-> <<>>]
  /\ chatCall = [s \in ChatSides |-> NoChatCall]
  /\ feed = [s \in ChatSides |-> {}]
  /\ refetchCall = [s \in ChatSides |-> NoRefetch]
  /\ refetches = 0

NextSeed ==
  \/ SeedMain
  \/ SeedCreateUser
  \/ SeedUpsertRole
  \/ SeedUpsertProfile
  \/ SeedUpdateName
  \/ SeedAssignment
  \/ SeedAttendance
  \/ SeedDeactivatePlan
  \/ SeedInsertPlan
  \/ SeedNote

SpecSeed == InitSeed /\ [][NextSeed]_vars

\* SpecCoach: the client, who has a pending request with each coach and no
\* coach yet, and the coaches
InitCoach ==
  /\ ocrFile = CorruptFile
  /\ ocrPc = "idle"
  /\ ocrOut = Pending
  /\ inbody_records = {}
  /\ nextId = 1
  /\ dbTime = 0
  /\ mounted = [s \in Sessions |-> FALSE]
  /\ user = [s \in Sessions |-> NoUser]
  /\ records = [s \in Sessions |-> <<>>]
  /\ isLoading = [s \in Sessions |-> TRUE]
  /\ isSaving = [s \in Sessions |-> FALSE]
  /\ saveCall = [s \in Sessions |-> NoSave]
  /\ fetchCall = [s \in Sessions |-> [c \in FetchCallers |-> Idle]]
  /\ toast = [s \in Sessions |-> "none"]
  /\ formData = EmptyForm
  /\ errors = NoErrors
  /\ isProcessingOCR = FALSE
  /\ ocrStatus = "idle"
  /\ ocrResult = NoResult
  /\ uploads = [n \in 1..MaxUploads |-> NoUpload]
  /\ uploadsStarted = 0
  /\ edits = 0
  /\ clock = 0
  /\ rangeInsights = NotCalled
  /\ monthlyInsights = NotCalled
  /\ clientId = NoUser
  /\ inbodyRecords = <<>>
  /\ inbodyInsights = NoData(30)
  /\ insights = NoInsightData
  /\ panelLoading = TRUE
  /\ panelCall = [n \in 1..MaxLoads |-> NoPanelCall]
  /\ seedDb = NoSeedDb
  /\ seedPc = 0
  /\ seedRuns = 0
  /\ coach_client_assignments = {}
  /\ coaching_requests = PendingToEach
  /\ currentCoach = NoCoach
  /\ profileCoach = NoCoach
  /\ joinCall = NoJoin
  /\ payCall = NoJoin
  /\ respondCall = [k \in Coaches |-> NoRespond]
  /\ policies \in {"schema", "open"}
  /\ createCall = [t \in Tabs |-> NoCreate]
  /\ workout_plans = {}
  /\ diet_plans = {}
  /\ objects = {}
  /\ planCall = [t \in Tabs |-> NoPlanCall]
  /\ planStarted = 0
  /\ chat_conversations = {}
  /\ chat_messages = <<>>
  /\ conversation = [s \in ChatSides |-> NoConversation]
  /\ messages = [s \in ChatSides |-> <<>>]
  /\ chatCall = [s \in ChatSides |-> NoChatCall]
  /\ feed = [s \in ChatSides |-> {}]
  /\ refetchCall = [s \in ChatSides |-> NoRefetch]
  /\ refetches = 0

NextCoach ==
  \/ \E k \in Coaches : JoinStart(k)
  \/ JoinDeactivate
  \/ JoinUpsert
  \/ \E k \in Coaches : PayStart(k)
  \/ PayDeactivate
  \/ PayInsert
  \/ ChangeCoach
  \/ \E k \in Coaches : \E id \in 1..MaxRequests :
       \E status \in {"accepted", "rejected"} : RespondStart(k, id, status)
  \/ \E k \in Coaches : RespondSelect(k)
  \/ \E k \in Coaches : RespondUpdate(k)
  \/ \E k \in Coaches : RespondDeactivate(k)
  \/ \E k \in Coaches : RespondInsert(k)

SpecCoach == InitCoach /\ [][NextCoach]_vars

\* SpecRequests: the client sends, and cancels, requests from two tabs and
\* the coaches respond; before, the client had no coach, or had left k1
\* for k2
EarlierAssignments ==
  {{},
   {[coach_id |-> "k1", client_id |-> Client, is_active |-> FALSE],
    [coach_id |-> "k2", client_id |-> Client, is_active |-> TRUE]}}

InitRequests ==
  /\ ocrFile = CorruptFile
  /\ ocrPc = "idle"
  /\ ocrOut = Pending
  /\ inbody_records = {}
  /\ nextId = 1
  /\ dbTime = 0
  /\ mounted = [s \in Sessions |-> FALSE]
  /\ user = [s \in Sessions |-> NoUser]
  /\ records = [s \in Sessions |-> <<>>]
  /\ isLoading = [s \in Sessions |-> TRUE]
  /\ isSaving = [s \in Sessions |-> FALSE]
  /\ saveCall = [s \in Sessions |-> NoSave]
  /\ fetchCall = [s \in Sessions |-> [c \in FetchCallers |-> Idle]]
  /\ toast = [s \in Sessions |-> "none"]
  /\ formData = EmptyForm
  /\ errors = NoErrors
  /\ isProcessingOCR = FALSE
  /\ ocrStatus = "idle"
  /\ ocrResult = NoResult
  /\ uploads = [n \in 1..MaxUploads |-> NoUpload]
  /\ uploadsStarted = 0
  /\ edits = 0
  /\ clock = 0
  /\ rangeInsights = NotCalled
  /\ monthlyInsights = NotCalled
  /\ clientId = NoUser
  /\ inbodyRecords = <<>>
  /\ inbodyInsights = NoData(30)
  /\ insights = NoInsightData
  /\ panelLoading = TRUE
  /\ panelCall = [n \in 1..MaxLoads |-> NoPanelCall]
  /\ seedDb = NoSeedDb
  /\ seedPc = 0
  /\ seedRuns = 0
  /\ coach_client_assignments \in EarlierAssignments
  /\ coaching_requests = <<>>
  /\ currentCoach = NoCoach
  /\ profileCoach = NoCoach
  /\ joinCall = NoJoin
  /\ payCall = NoJoin
  /\ respondCall = [k \in Coaches |-> NoRespond]
  /\ policies \in {"schema", "open"}
  /\ createCall = [t \in Tabs |-> NoCreate]
  /\ workout_plans = {}
  /\ diet_plans = {}
  /\ objects = {}
  /\ planCall = [t \in Tabs |-> NoPlanCall]
  /\ planStarted = 0
  /\ chat_conversations = {}
  /\ chat_messages = <<>>
  /\ conversation = [s \in ChatSides |-> NoConversation]
  /\ messages = [s \in ChatSides |-> <<>>]
  /\ chatCall = [s \in ChatSides |-> NoChatCall]
  /\ feed = [s \in ChatSides |-> {}]
  /\ refetchCall = [s \in ChatSides |-> NoRefetch]
  /\ refetches = 0

NextRequests ==
  \/ \E t \in Tabs : \E k \in Coaches : CreateStart(t, k)
  \/ \E t \in Tabs : CreateSelect(t)
  \/ \E t \in Tabs : CreateInsert(t)
  \/ \E id \in 1..MaxRequests : CancelRequest(id)
  \/ \E k \in Coaches : \E id \in 1..MaxRequests :
       \E status \in {"accepted", "rejected"} : RespondStart(k, id, status)
  \/ \E k \in Coaches : RespondSelect(k)
  \/ \E k \in Coaches : RespondUpdate(k)
  \/ \E k \in Coaches : RespondDeactivate(k)
  \/ \E k \in Coaches : RespondInsert(k)

SpecRequests == InitRequests /\ [][NextRequests]_vars

\* SpecPlans: coach k1, whose client is the client, creates plans
InitPlans ==
  /\ ocrFile = CorruptFile
  /\ ocrPc = "idle"
  /\ ocrOut = Pending
  /\ inbody_records = {}
  /\ nextId = 1
  /\ dbTime = 0
  /\ mounted = [s \in Sessions |-> FALSE]
  /\ user = [s \in Sessions |-> NoUser]
  /\ records = [s \in Sessions |-> <<>>]
  /\ isLoading = [s \in Sessions |-> TRUE]
  /\ isSaving = [s \in Sessions |-> FALSE]
  /\ saveCall = [s \in Sessions |-> NoSave]
  /\ fetchCall = [s \in Sessions |-> [c \in FetchCallers |-> Idle]]
  /\ toast = [s \in Sessions |-> "none"]
  /\ formData = EmptyForm
  /\ errors = NoErrors
  /\ isProcessingOCR = FALSE
  /\ ocrStatus = "idle"
  /\ ocrResult = NoResult
  /\ uploads = [n \in 1..MaxUploads |-> NoUpload]
  /\ uploadsStarted = 0
  /\ edits = 0
  /\ clock = 0
  /\ rangeInsights = NotCalled
  /\ monthlyInsights = NotCalled
  /\ clientId = NoUser
  /\ inbodyRecords = <<>>
  /\ inbodyInsights = NoData(30)
  /\ insights = NoInsightData
  /\ panelLoading = TRUE
  /\ panelCall = [n \in 1..MaxLoads |-> NoPanelCall]
  /\ seedDb = NoSeedDb
  /\ seedPc = 0
  /\ seedRuns = 0
  /\ coach_client_assignments =
       {[coach_id |-> PlanCoach, client_id |-> Client, is_active |-> TRUE]}
  /\ coaching_requests = PendingToEach
  /\ currentCoach = NoCoach
  /\ profileCoach = NoCoach
  /\ joinCall = NoJoin
  /\ payCall = NoJoin
  /\ respondCall = [k \in Coaches |-> NoRespond]
  /\ policies = "open"
  /\ createCall = [t \in Tabs |-> NoCreate]
  /\ workout_plans = {}
  /\ diet_plans = {}
  /\ objects = {}
  /\ planCall = [t \in Tabs |-> NoPlanCall]
  /\ planStarted = 0
  /\ chat_conversations = {}
  /\ chat_messages = <<>>
  /\ conversation = [s \in ChatSides |-> NoConversation]
  /\ messages = [s \in ChatSides |-> <<>>]
  /\ chatCall = [s \in ChatSides |-> NoChatCall]
  /\ feed = [s \in ChatSides |-> {}]
  /\ refetchCall = [s \in ChatSides |-> NoRefetch]
  /\ refetches = 0

NextPlans ==
  \/ \E t \in Tabs : \E table \in PlanTables : \E type \in PlanTypes :
       PlanStart(t, table, type)
  \/ \E t \in Tabs : PlanVersion(t)
  \/ \E t \in Tabs : PlanUpload(t)
  \/ \E t \in Tabs : PlanDeactivate(t)
  \/ \E t \in Tabs : \E stored \in BOOLEAN : PlanInsert(t, stored)

SpecPlans == InitPlans /\ [][NextPlans]_vars

\* SpecChat: the client and the client's coach open the chat, send
\* messages and refetch; the conversation exists already, or not yet
InitChat ==
  /\ ocrFile = CorruptFile
  /\ ocrPc = "idle"
  /\ ocrOut = Pending
  /\ inbody_records = {}
  /\ nextId = 1
  /\ dbTime = 0
  /\ mounted = [s \in Sessions |-> FALSE]
  /\ user = [s \in Sessions |-> NoUser]
  /\ records = [s \in Sessions |-> <<>>]
  /\ isLoading = [s \in Sessions |-> TRUE]
  /\ isSaving = [s \in Sessions |-> FALSE]
  /\ saveCall = [s \in Sessions |-> NoSave]
  /\ fetchCall = [s \in Sessions |-> [c \in FetchCallers |-> Idle]]
  /\ toast = [s \in Sessions |-> "none"]
  /\ formData = EmptyForm
  /\ errors = NoErrors
  /\ isProcessingOCR = FALSE
  /\ ocrStatus = "idle"
  /\ ocrResult = NoResult
  /\ uploads = [n \in 1..MaxUploads |-> NoUpload]
  /\ uploadsStarted = 0
  /\ edits = 0
  /\ clock = 0
  /\ rangeInsights = NotCalled
  /\ monthlyInsights = NotCalled
  /\ clientId = NoUser
  /\ inbodyRecords = <<>>
  /\ inbodyInsights = NoData(30)
  /\ insights = NoInsightData
  /\ panelLoading = TRUE
  /\ panelCall = [n \in 1..MaxLoads |-> NoPanelCall]
  /\ seedDb = NoSeedDb
  /\ seedPc = 0
  /\ seedRuns = 0
  /\ coach_client_assignments =
       {[coach_id |-> PlanCoach, client_id |-> Client, is_active |-> TRUE]}
  /\ coaching_requests = PendingToEach
  /\ currentCoach = NoCoach
  /\ profileCoach = NoCoach
  /\ joinCall = NoJoin
  /\ payCall = NoJoin
  /\ respondCall = [k \in Coaches |-> NoRespond]
  /\ policies = "open"
  /\ createCall = [t \in Tabs |-> NoCreate]
  /\ workout_plans = {}
  /\ diet_plans = {}
  /\ objects = {}
  /\ planCall = [t \in Tabs |-> NoPlanCall]
  /\ planStarted = 0
  /\ chat_conversations \in {{}, {PairConversation}}
  /\ chat_messages = <<>>
  /\ conversation = [s \in ChatSides |-> NoConversation]
  /\ messages = [s \in ChatSides |-> <<>>]
  /\ chatCall = [s \in ChatSides |-> NoChatCall]
  /\ feed = [s \in ChatSides |-> {}]
  /\ refetchCall = [s \in ChatSides |-> NoRefetch]
  /\ refetches = 0

NextChat ==
  \/ \E s \in ChatSides : ChatOpen(s)
  \/ \E s \in ChatSides : ChatSelect(s)
  \/ \E s \in ChatSides : ChatInsert(s)
  \/ \E s \in ChatSides : ChatFetchQuery(s)
  \/ \E s \in ChatSides : ChatFetchDone(s)
  \/ \E s \in ChatSides : SendMessage(s)
  \/ \E s \in ChatSides : \E id \in 1..MaxMessages : \E again \in BOOLEAN :
       Notify(s, id, again)
  \/ \E s \in ChatSides : RefetchQuery(s)
  \/ \E s \in ChatSides : RefetchDone(s)

SpecChat == InitChat /\ [][NextChat]_vars

\* the database answers, the answers arrive, and the feed hands over every
\* insert; nobody has to send a message or to refetch
ChatFairness ==
  \A s \in ChatSides :
    /\ WF_vars(ChatOpen(s))
    /\ WF_vars(ChatSelect(s))
    /\ WF_vars(ChatInsert(s))
    /\ WF_vars(ChatFetchQuery(s))
    /\ WF_vars(ChatFetchDone(s))
    /\ WF_vars(RefetchDone(s))
    /\ \A id \in 1..MaxMessages : WF_vars(Notify(s, id, FALSE))

SpecChatLive == InitChat /\ [][NextChat]_vars /\ ChatFairness




(***************************************************************************)
(* Properties of the OCR service (SpecOcr).                                *)
(***************************************************************************)
\* the metrics and the rule list of each
Metrics == {"weight_kg", "skeletal_muscle_kg", "body_fat_percentage"}
RulesOf(metric) ==
  CASE metric = "weight_kg" -> WEIGHT_PATTERNS
    [] metric = "skeletal_muscle_kg" -> MUSCLE_PATTERNS
    [] metric = "body_fat_percentage" -> BODY_FAT_PATTERNS

\* the rules of the metric that match the text and whose capture parses
Winners(text, metric) ==
  {k \in 1..Len(RulesOf(metric)) :
     /\ match(text, RulesOf(metric)[k]) # <<>>
     /\ ~isNaN(parseFloat(match(text, RulesOf(metric)[k])))}

\* C6: extractInBodyData never rejects: a settled call is resolved, and
\* when the recognition fails it resolves with the three fields null,
\* confidence 0 and an empty raw text.
C6_ExtractNeverRejects ==
  ocrPc = "settled" =>
    /\ ocrOut.state = "resolved"
    /\ ~ocrFile.readable =>
         /\ \A m \in Metrics : ocrOut.value[m] = null
         /\ RatioEq(ocrOut.value.confidence, Ratio(0, 1))
         /\ ocrOut.value.raw_text = <<>>

\* a call on a file the engine cannot read has settled
C6_Witness ==
  ocrPc = "settled" /\ ~ocrFile.readable /\ ocrOut.state = "resolved"

\* C9: the confidence of every extraction result is the number of its
\* non-null fields divided by 3, hence one of 0, 1/3, 2/3 and 1.
C9_ConfidenceIsFoundOverThree ==
  (ocrPc = "settled" /\ ocrOut.state = "resolved") =>
    /\ RatioEq(ocrOut.value.confidence,
               Ratio(Cardinality({m \in Metrics : ocrOut.value[m] # null}), 3))
    /\ \E k \in 0..3 : RatioEq(ocrOut.value.confidence, Ratio(k, 3))

\* a result with two of the three fields, whose confidence is 2/3
C9_Witness ==
  /\ ocrPc = "settled"
  /\ ocrOut.state = "resolved"
  /\ Cardinality({m \in Metrics : ocrOut.value[m] # null}) = 2
  /\ RatioEq(ocrOut.value.confidence, Ratio(2, 3))

HoldsRecord(r, rec) ==
  /\ r.date = rec.date
  /\ r.weight_kg = rec.weight_kg
  /\ r.skeletal_muscle_kg = rec.skeletal_muscle_kg
  /\ r.body_fat_percentage = rec.body_fat_percentage

\* the step of session s in which its upsert is applied
UpsertStep(s) == saveCall[s].pc = "upsert" /\ saveCall'[s].pc = "refetch"

\* C1: whatever saves have run, overlapping or not, no two stored records
\* of one owner share a date, and neither do two entries of a record list.
C1_OneRecordPerOwnerAndDate ==
  /\ \A r, q \in inbody_records :
       (r.user_id = q.user_id /\ r.date = q.date) => r = q
  /\ \A s \in Sessions : \A i, j \in 1..Len(records[s]) :
       (records[s][i].user_id = records[s][j].user_id
          /\ records[s][i].date = records[s][j].date) => i = j

\* two pages of one owner saved the same date with different weights, the
\* two calls overlapping: both upserts are applied, neither call is over
C1_Witness ==
  /\ user["tabA"] = user["tabB"]
  /\ saveCall["tabA"].pc = "refetch"
  /\ saveCall["tabB"].pc = "refetch"
  /\ saveCall["tabA"].record.date = saveCall["tabB"].record.date
  /\ saveCall["tabA"].record # saveCall["tabB"].record
  /\ Cardinality(inbody_records) = 1

\* C2: a save replaces the record of its (owner, date): after the upsert
\* exactly one record exists for the key, it holds the values saved, the
\* records of the other keys are untouched, and saving what is already
\* stored leaves the table as it was.
C2_SaveReplacesByDate ==
  [][\A s \in Sessions : UpsertStep(s) =>
       LET rec == saveCall[s].record
           before == Conflict(inbody_records, user[s], rec.date)
           after == Conflict(inbody_records', user[s], rec.date)
       IN  /\ Cardinality(after) = 1
           /\ \A r \in after : HoldsRecord(r, rec)
           /\ inbody_records' \ after = inbody_records \ before
           /\ (\E r \in before : HoldsRecord(r, rec))
                => inbody_records' = inbody_records]_vars

\* a second save of a date replaced the weight the first one stored: the
\* row the first statement created holds 81.5 now, and a page still lists
\* it with 82
C2_Witness ==
  \E r \in inbody_records :
    /\ dbTime = 2
    /\ r.created_at = 1
    /\ r.weight_kg = 8150
    /\ Cardinality(inbody_records) = 1
    /\ \E s \in Sessions :
         Len(records[s]) = 1 /\ records[s][1].weight_kg = 8200

\* the entries of the list hold the record
Lists(list, rec) == \E i \in 1..Len(list) : HoldsRecord(list[i], rec)

\* the step in which saveRecord of the form's page returns true
SaveSucceeds ==
  saveCall[FormSession].pc = "refetch" /\ saveCall'[FormSession].pc = "idle"

\* C3: during a save the record list, when it changes, changes to a list
\* that includes the saved record, and when the save reports success the
\* list includes the saved record.
C3_SaveAtomicAndVisible ==
  [][/\ (saveCall[FormSession].pc # "idle"
          /\ records'[FormSession] # records[FormSession])
        => Lists(records'[FormSession], saveCall[FormSession].record)
     /\ SaveSucceeds
        => Lists(records'[FormSession], saveCall[FormSession].record)]_vars

(***************************************************************************)
(* Properties of the form (SpecForm, SpecSubmit).                          *)
(***************************************************************************)
\* the step in which saveRecord of the form's page is called, and the one
\* in which it returns false
SaveCalled ==
  saveCall[FormSession].pc = "idle" /\ saveCall'[FormSession].pc = "upsert"
SaveFails ==
  saveCall[FormSession].pc = "upsert" /\ saveCall'[FormSession].pc = "idle"

\* C4: a save the backend fails changes neither the record list nor the
\* table nor the values in the form, and the form can submit again.
C4_FailedSaveChangesNothing ==
  [][/\ (SaveCalled \/ SaveFails)
        => /\ records' = records
           /\ inbody_records' = inbody_records
           /\ formData' = formData
     /\ SaveFails => ~isSaving'[FormSession]]_vars

\* the save of a form the user filled in by hand has failed: the values are
\* still in the form, which validates, and the submit button is enabled
C4_Witness ==
  /\ toast[FormSession] = "Failed to save measurement."
  /\ saveCall[FormSession].pc = "idle"
  /\ ~isSaving[FormSession]
  /\ formData.weight_kg = <<"7", "5">>
  /\ ~HasErrors(validateForm(formData))
  /\ records[FormSession] = <<>>

\* the text is a number from lo to hi (in hundredths)
InRange(chars, lo, hi) ==
  /\ ~isNaN(parseFloat(chars))
  /\ parseFloat(chars) >= lo
  /\ parseFloat(chars) <= hi

WeightValid(data) == InRange(data.weight_kg, 20 * 100, 300 * 100)
BodyFatValid(data) == InRange(data.body_fat_percentage, 3 * 100, 60 * 100)

\* C5: while the weight or the body fat in the form is not a number in its
\* range, no step calls saveRecord or writes the table, a submission flags
\* exactly the fields at fault, and no stored record is out of range.
C5_InvalidFormNeverSaved ==
  [][/\ (saveCall[FormSession].pc = "idle"
          /\ (~WeightValid(formData) \/ ~BodyFatValid(formData)))
        => /\ saveCall' = saveCall
           /\ inbody_records' = inbody_records
           /\ errors' # errors
              => /\ errors'["weight_kg"] = ~WeightValid(formData)
                 /\ errors'["body_fat_percentage"] = ~BodyFatValid(formData)
     /\ \A r \in inbody_records :
          /\ r.weight_kg >= 20 * 100 /\ r.weight_kg <= 300 * 100
          /\ r.body_fat_percentage >= 3 * 100
          /\ r.body_fat_percentage <= 60 * 100]_vars

\* a form with the weight 300.01 and the other fields in range was
\* submitted: the weight alone is flagged, and nothing was saved
C5_Witness ==
  /\ parseFloat(formData.weight_kg) = 300 * 100 + 1
  /\ errors = [NoErrors EXCEPT !["weight_kg"] = TRUE]
  /\ BodyFatValid(formData)
  /\ saveCall[FormSession].pc = "idle"
  /\ dbTime = 0
  /\ inbody_records = {}

\* the step in which the n-th handleFileUpload call completes
UploadCompletes(n) == uploads[n].pc = "running" /\ uploads'[n].pc = "done"

\* what handleFileUpload binds for the file
BoundFor(file) == extractInBodyData(file).value

\* the two results hold the same fields, confidence and raw text
SameResult(a, b) ==
  /\ \A f \in NumberFields : a[f] = b[f]
  /\ RatioEq(a.confidence, b.confidence)
  /\ a.raw_text = b.raw_text

\* C7: when the last of the calls in flight completes, the OCR result and
\* status and the fields of the form are those of the call started last.
C7_LastStartedCallIsBound ==
  [][\A n \in 1..MaxUploads :
       (UploadCompletes(n) /\ \A m \in 1..MaxUploads : uploads'[m].pc # "running")
         => /\ SameResult(ocrResult', BoundFor(uploads[uploadsStarted].file))
            /\ ocrStatus' = StatusOf(Cardinality(Found(
                                BoundFor(uploads[uploadsStarted].file))))
            /\ \A f \in Found(BoundFor(uploads[uploadsStarted].file)) :
                 formData'[f] =
                   toString(BoundFor(uploads[uploadsStarted].file)[f])]_vars

\* C8: every completion of an OCR call, whatever its outcome, clears the
\* busy state, and a form that validates can be submitted whenever no save
\* is running, whatever the OCR status is.
C8_OcrOutcomeNeverBlocksSave ==
  [][/\ \A n \in 1..MaxUploads : UploadCompletes(n) => ~isProcessingOCR'
     /\ (/\ ~isSaving[FormSession]
         /\ ~HasErrors(validateForm(formData))
         /\ Upserts < MaxFormSaves)
        => ENABLED SubmitValid]_vars

\* an extraction found the weight alone, the user typed the other two
\* fields, and the record is on its way to the table
C8_Witness ==
  /\ ocrStatus = "partial"
  /\ ~isProcessingOCR
  /\ formData.weight_kg = <<"7", "0">>
  /\ formData.skeletal_muscle_kg = <<"3", "4">>
  /\ saveCall[FormSession].pc = "upsert"
  /\ saveCall[FormSession].record.weight_kg = 70 * 100

(***************************************************************************)
(* Properties of the insights of the hook (SpecInsights).                  *)
(***************************************************************************)
\* the records getInsights and getMonthlyInsights are called on
PageRecords == records[FormSession]

RangeReturned == rangeInsights.periodDays # null

\* change is delta rounded to one decimal: a multiple of 0.1 that is no
\* further than 0.05 from delta
RoundedToOneDecimal(change, delta) ==
  /\ change % 10 = 0
  /\ change - delta <= 5
  /\ delta - change <= 5

\* C11: for a list of two or more records, periodDays is the number of
\* days from the date of the oldest record to the date of the newest, and
\* each change is the newest value minus the oldest rounded to one decimal.
C11_RangeIsNewestMinusOldest ==
  (RangeReturned /\ Len(PageRecords) >= 2) =>
    LET newest == PageRecords[Len(PageRecords)]
        oldest == PageRecords[1]
    IN  /\ rangeInsights.periodDays = newest.date - oldest.date
        /\ RoundedToOneDecimal(rangeInsights.weightChange,
                               newest.weight_kg - oldest.weight_kg)
        /\ RoundedToOneDecimal(rangeInsights.muscleChange,
                               newest.skeletal_muscle_kg
                                 - oldest.skeletal_muscle_kg)
        /\ RoundedToOneDecimal(rangeInsights.fatChange,
                               newest.body_fat_percentage
                                 - oldest.body_fat_percentage)

\* three records, of 2024-03-01 (82.0 kg), 2024-03-15 and 2024-04-03
\* (80.0 kg): weightChange -2.0 over 33 days, whatever the middle one holds
C11_Witness ==
  /\ Len(PageRecords) = 3
  /\ PageRecords[1].date = 61 /\ PageRecords[1].weight_kg = 8200
  /\ PageRecords[2].date = 75 /\ PageRecords[2].weight_kg # 8000
  /\ PageRecords[3].date = 94 /\ PageRecords[3].weight_kg = 8000
  /\ rangeInsights.weightChange = 0 - 200
  /\ rangeInsights.periodDays = 33

\* C12: getInsights on a list of no record or one record returns the three
\* changes null and periodDays 0.
C12_FewRecordsGiveNoRange ==
  (RangeReturned /\ Len(PageRecords) < 2) =>
    /\ rangeInsights.weightChange = null
    /\ rangeInsights.muscleChange = null
    /\ rangeInsights.fatChange = null
    /\ rangeInsights.periodDays = 0

C12_Witness ==
  /\ Len(PageRecords) = 1
  /\ rangeInsights = NoData(0)

(***************************************************************************)
(* Properties of the insights panel (SpecPanel).                           *)
(***************************************************************************)
\* call n of fetchInsights goes on after its awaits and sets the state
LoadCompletes(n) == panelCall[n].pc = "answered" /\ panelCall'[n].pc = "done"

\* delta rounded to one decimal, a tie going away from zero
HalfAwayFromZero(delta) ==
  IF delta >= 0 THEN 10 * ((delta + 5) \div 10)
  ELSE 0 - 10 * ((5 - delta) \div 10)

\* the records of list dated on or after now minus 30 days
RollingWindow(list, now) ==
  LET InWindow(r) == getTime(r.date) >= now - 30 * SecPerDay
  IN  SelectSeq(list, InWindow)

\* C13: a delta the panel reports is the difference of the last and the
\* first record of its month rounded to one decimal, a tie going away from
\* zero.
C13_DeltasRoundHalfAwayFromZero ==
  [][\A n \in 1..MaxLoads :
       (LoadCompletes(n) /\ Len(monthRecordsOf(panelCall[n].data, clock)) >= 2)
         => LET month == monthRecordsOf(panelCall[n].data, clock)
                first == month[1]
                last == month[Len(month)]
            IN  /\ inbodyInsights'.weightChange =
                     HalfAwayFromZero(last.weight_kg - first.weight_kg)
                /\ inbodyInsights'.muscleChange =
                     HalfAwayFromZero(last.skeletal_muscle_kg
                                        - first.skeletal_muscle_kg)
                /\ inbodyInsights'.fatChange =
                     HalfAwayFromZero(last.body_fat_percentage
                                        - first.body_fat_percentage)]_vars

\* C14: when two or more of the loaded records are dated on or after now
\* minus 30 days, the monthly insight the panel reports has the changes
\* between the first and the last of them.
C14_MonthlyWindowIsRolling ==
  [][\A n \in 1..MaxLoads :
       (LoadCompletes(n) /\ Len(RollingWindow(panelCall[n].data, clock)) >= 2)
         => LET window == RollingWindow(panelCall[n].data, clock)
                first == window[1]
                last == window[Len(window)]
            IN  /\ inbodyInsights'.weightChange # null
                /\ RoundedToOneDecimal(inbodyInsights'.weightChange,
                                       last.weight_kg - first.weight_kg)
                /\ RoundedToOneDecimal(inbodyInsights'.muscleChange,
                                       last.skeletal_muscle_kg
                                         - first.skeletal_muscle_kg)
                /\ RoundedToOneDecimal(inbodyInsights'.fatChange,
                                       last.body_fat_percentage
                                         - first.body_fat_percentage)]_vars

TrendInput(n) == panelCall[n].inbodyRecords
AbsDiff(a, b) == IF a < b THEN b - a ELSE a - b

TrendClassified(trend, old, new) ==
  /\ trend \in {"stable", "up", "down"}
  /\ trend = "stable" <=> AbsDiff(new, old) < 50
  /\ trend = "up" => new > old
  /\ trend = "down" => new < old

\* C16: on two or more records the trend of a metric is "stable" exactly
\* when the last value differs from the first by less than 0.5, and
\* otherwise "up" when it is greater and "down" when it is smaller.
C16_TrendDeadband ==
  [][\A n \in 1..MaxLoads :
       (LoadCompletes(n) /\ Len(TrendInput(n)) >= 2)
         => LET old == TrendInput(n)[1]
                new == TrendInput(n)[Len(TrendInput(n))]
            IN  /\ TrendClassified(insights'.weightTrend,
                                   old.weight_kg, new.weight_kg)
                /\ TrendClassified(insights'.fatTrend,
                                   old.body_fat_percentage,
                                   new.body_fat_percentage)
                /\ TrendClassified(insights'.muscleTrend,
                                   old.skeletal_muscle_kg,
                                   new.skeletal_muscle_kg)]_vars

\* the second call classified records whose muscle went from 34.0 to 34.5,
\* whose fat fell by 0.25 and whose weight fell by 2.0 (the first call is
\* given no records and returns no trend)
C16_Witness ==
  /\ panelCall[2].pc = "done"
  /\ Len(TrendInput(2)) >= 2
  /\ TrendInput(2)[Len(TrendInput(2))].skeletal_muscle_kg
       - TrendInput(2)[1].skeletal_muscle_kg = 50
  /\ insights.muscleTrend = "up"
  /\ insights.fatTrend = "stable"
  /\ insights.weightTrend = "down"

\* C19: a load that completes for a client with two or more records sets
\* every trend to the classification of the first and the last record of
\* the list that load fetched.
C19_TrendsFromLoadedRecords ==
  [][\A n \in 1..MaxLoads :
       (LoadCompletes(n) /\ Len(panelCall[n].data) >= 2)
         => LET old == panelCall[n].data[1]
                new == panelCall[n].data[Len(panelCall[n].data)]
            IN  /\ TrendClassified(insights'.weightTrend,
                                   old.weight_kg, new.weight_kg)
                /\ TrendClassified(insights'.fatTrend,
                                   old.body_fat_percentage,
                                   new.body_fat_percentage)
                /\ TrendClassified(insights'.muscleTrend,
                                   old.skeletal_muscle_kg,
                                   new.skeletal_muscle_kg)]_vars

(***************************************************************************)
(* Properties of fetchRecords (SpecStore).                                 *)
(***************************************************************************)
\* list holds every row of the owner uid in rows once, in ascending order
\* of the dates
AllByDate(list, rows, uid) ==
  /\ {list[i] : i \in 1..Len(list)} = {r \in rows : r.user_id = uid}
  /\ Len(list) = Cardinality({r \in rows : r.user_id = uid})
  /\ \A i \in 1..Len(list) : \A j \in 1..Len(list) :
       i < j => list[i].date < list[j].date

\* the select of call c of session s is answered without an error
LoadAnswered(s, c) ==
  /\ fetchCall[s][c].pc = "sent"
  /\ fetchCall'[s][c].pc = "answered"
  /\ fetchCall'[s][c].ok

\* call c of session s goes on after an answer without an error
LoadSucceeds(s, c) ==
  /\ fetchCall[s][c].pc = "answered"
  /\ fetchCall[s][c].ok
  /\ fetchCall'[s][c].pc = "idle"

\* C17: the answer to a load lists all records the owner has in the table,
\* in ascending date order, and a load that succeeds makes that answer the
\* record list of the page.
C17_LoadListsAllByDate ==
  [][\A s \in Sessions : \A c \in FetchCallers :
       /\ LoadAnswered(s, c) =>
            AllByDate(fetchCall'[s][c].data, inbody_records, user[s])
       /\ LoadSucceeds(s, c) =>
            /\ records'[s] = fetchCall[s][c].data
            /\ \A i \in 1..Len(records'[s]) : \A j \in 1..Len(records'[s]) :
                 i < j => records'[s][i].date < records'[s][j].date
            /\ \A i \in 1..Len(records'[s]) :
                 records'[s][i].user_id = user[s]]_vars

\* a page lists two records of which the later one was saved first
C17_Witness ==
  \E s \in Sessions :
    /\ Len(records[s]) = 2
    /\ records[s][1].date < records[s][2].date
    /\ records[s][1].id > records[s][2].id
    /\ ~isLoading[s]

(***************************************************************************)
(* Properties of the seed script (SpecSeed).                               *)
(***************************************************************************)
\* the data one run of the script leaves: the three users with their roles
\* and profiles, one active assignment, one attendance record a day, one
\* workout plan, one diet plan and the three notes
SeededOnce ==
  /\ seedDb.users = SeedPeople
  /\ Cardinality(seedDb.user_roles) = 3
  /\ Cardinality(seedDb.profiles) = 3
  /\ seedDb.coach_profiles = {[user_id |-> "coach", seeded |-> TRUE]}
  /\ seedDb.client_profiles = {[user_id |-> "client", seeded |-> TRUE]}
  /\ coach_client_assignments =
       {[coach_id |-> "coach", client_id |-> "client", is_active |-> TRUE]}
  /\ Cardinality(seedDb.attendance) = SeedDays
  /\ Cardinality(seedDb.workout_plans) = 1
  /\ Cardinality(seedDb.diet_plans) = 1
  /\ Cardinality(seedDb.coach_notes) = 3

\* C18: whenever a run of the seed script has ended, the first or a later
\* one, the database holds the data of a single run: no user, assignment,
\* attendance record, plan or coach note twice.
C18_SeedRerunLeavesSameData ==
  (seedPc = 0 /\ seedRuns >= 1) => SeededOnce

(***************************************************************************)
(* Properties of the coach assignments (SpecCoach).                        *)
(***************************************************************************)
ActiveAssignments(client) ==
  {a \in coach_client_assignments : a.client_id = client /\ a.is_active}

\* C20: whatever the client's joins and removals and the coaches' answers
\* have done, in whatever interleaving, the client has at most one active
\* coach assignment.
C20_OneActiveCoach ==
  Cardinality(ActiveAssignments(Client)) <= 1

(***************************************************************************)
(* Properties of the coaching requests (SpecRequests).                     *)
(***************************************************************************)
\* coach k's respondToRequest(id, "accepted") ends in this step, at its
\* insert
AcceptEnds(k) ==
  /\ respondCall[k].pc = "insert"
  /\ respondCall'[k].pc = "idle"

\* C21: when an accept ends, either the request is accepted and the client
\* has an active assignment to the accepting coach, or the request is
\* still pending (and the assignments are as they were).
C21_AcceptIsAllOrNothing ==
  [][\A k \in Coaches :
       AcceptEnds(k) =>
         \/ /\ coaching_requests'[respondCall[k].id].status = "accepted"
            /\ [coach_id |-> k, client_id |-> Client, is_active |-> TRUE]
                 \in coach_client_assignments'
         \/ /\ coaching_requests'[respondCall[k].id].status = "pending"
            /\ coach_client_assignments' = coach_client_assignments]_vars

\* C22: the status of a request changes only from pending: to cancelled in
\* a step of cancelRequest, to accepted or rejected in a step of the
\* respondToRequest of its coach; a request that is accepted, rejected or
\* cancelled keeps its status in every step.
C22_StatusChangesOnlyFromPending ==
  [][\A id \in DOMAIN coaching_requests :
       coaching_requests'[id].status # coaching_requests[id].status =>
         /\ coaching_requests[id].status = "pending"
         /\ \/ /\ coaching_requests'[id].status = "cancelled"
               /\ CancelRequest(id)
            \/ /\ coaching_requests'[id].status \in {"accepted", "rejected"}
               /\ RespondUpdate(coaching_requests[id].coach_id)
               /\ respondCall[coaching_requests[id].coach_id].id = id]_vars

\* the client cancelled request 1, and the update of its coach's accept,
\* sent from an older list, has run since: the request is still cancelled
C22_Witness ==
  /\ coaching_requests # <<>>
  /\ coaching_requests[1].status = "cancelled"
  /\ \E k \in Coaches :
       /\ respondCall[k].pc = "deactivate"
       /\ respondCall[k].id = 1
       /\ respondCall[k].status = "accepted"

PendingTo(coach) ==
  {id \in DOMAIN coaching_requests :
     /\ coaching_requests[id].client_id = Client
     /\ coaching_requests[id].coach_id = coach
     /\ coaching_requests[id].status = "pending"}

\* C24: the client has at most one pending request to a coach.
C24_OnePendingRequestPerPair ==
  \A k \in Coaches : Cardinality(PendingTo(k)) <= 1

(***************************************************************************)
(* Properties of plan creation (SpecPlans).                                *)
(***************************************************************************)
ActivePlans(rows) == {r \in PairPlans(rows) : r.is_active}

\* the creation of tab t ends in this step with a failed insert, no other
\* creation being under way
InsertFailsAlone(t) ==
  /\ planCall[t].pc = "insert"
  /\ planCall'[t].returned = "failed"
  /\ \A u \in Tabs \ {t} : planCall[u].pc = "idle"

\* C25: the coach's client has at most one active workout plan and at most
\* one active diet plan, and when a creation fails at its insert (alone),
\* a table that holds plans of the pair still holds an active one.
C25_OneActivePlan ==
  [][/\ Cardinality(ActivePlans(workout_plans')) <= 1
     /\ Cardinality(ActivePlans(diet_plans')) <= 1
     /\ \A t \in Tabs :
          InsertFailsAlone(t) =>
            \/ PairPlans(PlansOf(planCall[t].table)') = {}
            \/ ActivePlans(PlansOf(planCall[t].table)') # {}]_vars

\* {coachId}/{clientId}/{planType}/{version}/{filename}
HasPlanPathForm(name, t) ==
  /\ Len(name) = 5
  /\ name[1] = PlanCoach
  /\ name[2] = Client
  /\ name[3] = planCall[t].table
  /\ name[4] = ToString(planCall[t].version)

\* C26: the PDF a plan creation uploads has a name of the form
\* {coachId}/{clientId}/{planType}/{version}/{filename}, with the coach,
\* the selected client, the page's plan type and the plan's version, and
\* the bucket stores it.
C26_PdfPathHasFiveParts ==
  [][\A t \in Tabs :
       (planCall[t].pc = "upload" /\ planCall'[t] # planCall[t]) =>
         /\ HasPlanPathForm(UploadName(t), t)
         /\ UploadName(t) \in objects']_vars

(***************************************************************************)
(* Properties of the OCR prefill (SpecForm).                               *)
(***************************************************************************)
\* C29: when a handleFileUpload call completes, the form data changes only
\* in the number fields for which the result holds a value; the date and
\* the fields the result holds null for stay as they are at that moment.
C29_PrefillKeepsOtherFields ==
  [][\A n \in 1..MaxUploads :
       UploadCompletes(n) =>
         \A k \in DOMAIN formData :
           formData'[k] # formData[k] =>
             (k \in NumberFields /\ ocrResult'[k] # null)]_vars

(***************************************************************************)
(* Properties of the chat (SpecChat, SpecChatLive).                        *)
(***************************************************************************)
\* C27: the message list of a side never holds the same id twice.
C27_NoDuplicateMessages ==
  \A s \in ChatSides :
    \A i, j \in 1..Len(messages[s]) :
      i # j => messages[s][i] # messages[s][j]

\* a side whose init has ended and who has refetched shows both messages,
\* and the feed is about to hand over one of them once more
C27_Witness ==
  \E s \in ChatSides :
    /\ chatCall[s].pc = "ended"
    /\ refetches = 1 /\ refetchCall[s].pc = "idle"
    /\ Len(messages[s]) = 2
    /\ \E id \in feed[s] : some(messages[s], id)

\* C28: a message that is stored, for a side that has its conversation, is
\* in the end in the list of that side and stays there.
C28_NoMessageLost ==
  \A s \in ChatSides : \A id \in 1..MaxMessages :
    (id \in DOMAIN chat_messages /\ conversation[s] # NoConversation)
      ~> [](some(messages[s], id))

\* C30: a side whose init has ended has the conversation of the pair, of
\* which there is one.
C30_BothSidesGetTheConversation ==
  \A s \in ChatSides :
    chatCall[s].pc = "ended" =>
      /\ chat_conversations = {PairConversation}
      /\ conversation[s] = PairConversation.id

=============================================================================
